---- MODULE Spec2Model ----
(***************************************************************************)
(* Log-Manager: the line parser / record assembler (LogParser.ts,          *)
(* LogFormats.ts) and the filter engine (LogParser.filterLogs).            *)
(*                                                                         *)
(* Text is modelled at the level of characters: a JavaScript string is a   *)
(* sequence of one-character strings, so that trim, split, startsWith,     *)
(* includes, toUpperCase and the regular expressions of the format         *)
(* registry are computed, not assumed.                                     *)
(***************************************************************************)
EXTENDS Integers, Sequences, FiniteSets, TLC

(***************************************************************************)
(* Bounds of the model.                                                    *)
(***************************************************************************)
\* longest input (number of lines of the content handed to parseLogContent)
MaxLines == 3
\* number of distinct clock readings new Date() can return during one run
MaxClock == 1
\* longest record sequence and number of records handed to filterLogs
MaxLogs == 2
MaxStatsLogs == 3

(***************************************************************************)
(* Characters and character classes (the regular-expression classes \d, \w *)
(* and \s restricted to the characters the model's lines are made of).     *)
(***************************************************************************)
LowerSeq == <<"a","b","c","d","e","f","g","h","i","j","k","l","m","n","o","p","q","r","s","t","u","v","w","x","y","z">>
UpperSeq == <<"A","B","C","D","E","F","G","H","I","J","K","L","M","N","O","P","Q","R","S","T","U","V","W","X","Y","Z">>
Lowers == {LowerSeq[i] : i \in DOMAIN LowerSeq}
Uppers == {UpperSeq[i] : i \in DOMAIN UpperSeq}

IsDigit(c) == c \in {"0","1","2","3","4","5","6","7","8","9"}
IsWordCh(c) == IsDigit(c) \/ c \in Lowers \cup Uppers \cup {"_"}
IsSpace(c) == c \in {" ", "\t"}

\* String.prototype.toUpperCase / toLowerCase, character by character
UpperCh(c) == IF c \in Lowers THEN UpperSeq[CHOOSE i \in DOMAIN LowerSeq : LowerSeq[i] = c] ELSE c
toUpperCase(s) == [i \in DOMAIN s |-> UpperCh(s[i])]
toLowerCase(s) ==
    [i \in DOMAIN s |-> IF s[i] \in Uppers
                        THEN LowerSeq[CHOOSE k \in DOMAIN UpperSeq : UpperSeq[k] = s[i]]
                        ELSE s[i]]

(***************************************************************************)
(* JavaScript values.  undefined is a value of its own; a string field     *)
(* holds either a character sequence or Undefined.                         *)
(***************************************************************************)
Undefined == <<"<undefined>">>
\* truthiness of a string-or-undefined value (x && ..., x || ...)
Truthy(x) == x # Undefined /\ x # <<>>
\* x || d
OrElse(x, d) == IF Truthy(x) THEN x ELSE d
\* template-literal interpolation `${x}`
Show(x) == IF x = Undefined THEN <<"u","n","d","e","f","i","n","e","d">> ELSE x

\* s[i], or "<eos>" where a regular expression reads past the end of the text
At(s, i) == IF i \in 1..Len(s) THEN s[i] ELSE "<eos>"
\* the text from position i to the end
From(s, i) == SubSeq(s, i, Len(s))
\* lit occurs in s at position i
LitAt(s, i, lit) == \A k \in 1..Len(lit) : At(s, i + k - 1) = lit[k]
startsWith(s, lit) == LitAt(s, 1, lit)
includes(s, t) == \E i \in 1..(Len(s) + 1) : LitAt(s, i, t)
\* the character classes of the patterns, by name
InClass(cls, c) ==
    CASE cls = "\\s" -> IsSpace(c)
      [] cls = "\\d" -> IsDigit(c)
      [] cls = "\\w" -> IsWordCh(c)
      [] cls = "[^\\s]" -> ~IsSpace(c)
      [] cls = "[^\\s-]" -> ~IsSpace(c) /\ c # "-"
      [] cls = "[a-zA-Z0-9_.]" -> IsWordCh(c) \/ c = "."
\* the first position >= i whose character is not in the class (at most Len(s)+1)
Skip(cls, s, i) == CHOOSE j \in i..(Len(s) + 1) :
                      /\ (j = Len(s) + 1 \/ ~InClass(cls, s[j]))
                      /\ \A k \in i..(j - 1) : InClass(cls, s[k])
SkipSpaces(s, i) == Skip("\\s", s, i)
\* String.prototype.trim
trim(s) == LET ws == {i \in 1..Len(s) : ~IsSpace(s[i])}
           IN  IF ws = {} THEN <<>>
               ELSE SubSeq(s, CHOOSE i \in ws : \A j \in ws : i <= j,
                              CHOOSE i \in ws : \A j \in ws : i >= j)
\* the positions of character c in s, from position i on
PositionsOf(s, c, i) == {k \in i..Len(s) : s[k] = c}
MinOf(S) == CHOOSE x \in S : \A y \in S : x <= y
\* String.prototype.split(c), for a one-character separator
RECURSIVE split(_, _)
split(s, c) == LET ps == PositionsOf(s, c, 1)
               IN  IF ps = {} THEN <<s>>
                   ELSE <<SubSeq(s, 1, MinOf(ps) - 1)>> \o split(From(s, MinOf(ps) + 1), c)
\* Array.prototype.join(sep)
RECURSIVE join(_, _)
join(a, sep) == IF Len(a) = 0 THEN <<>>
                ELSE IF Len(a) = 1 THEN a[1]
                ELSE a[1] \o sep \o join(Tail(a), sep)
\* parts[k] of a JavaScript array (0-based), undefined past its end
Part(parts, k) == IF k + 1 \in 1..Len(parts) THEN parts[k + 1] ELSE Undefined

(***************************************************************************)
(* Pieces of the registry's regular expressions.                           *)
(***************************************************************************)
\* \d{n} at position i
DigitsAt(s, i, n) == \A k \in i..(i + n - 1) : IsDigit(At(s, k))
\* \d{4}-\d{2}-\d{2} at position i (10 characters)
DateAt(s, i) == /\ DigitsAt(s, i, 4) /\ At(s, i + 4) = "-"
                /\ DigitsAt(s, i + 5, 2) /\ At(s, i + 7) = "-"
                /\ DigitsAt(s, i + 8, 2)
\* \d{2}:\d{2}:\d{2} at position i (8 characters)
TimeAt(s, i) == /\ DigitsAt(s, i, 2) /\ At(s, i + 2) = ":"
                /\ DigitsAt(s, i + 3, 2) /\ At(s, i + 5) = ":"
                /\ DigitsAt(s, i + 6, 2)
\* ^\d{4}-\d{2}-\d{2}T\d{2}:\d{2}:\d{2}\.\d{3}[+-]\d{2}:\d{2} (29 characters)
OffsetTimestampAtStart(s) ==
    /\ DateAt(s, 1) /\ At(s, 11) = "T" /\ TimeAt(s, 12)
    /\ At(s, 20) = "." /\ DigitsAt(s, 21, 3)
    /\ At(s, 24) \in {"+", "-"} /\ DigitsAt(s, 25, 2)
    /\ At(s, 27) = ":" /\ DigitsAt(s, 28, 2)
\* the position after (?:\.\d{1,3})? tried at position i
AfterOptMillis(s, i) ==
    IF At(s, i) = "." /\ IsDigit(At(s, i + 1))
    THEN MinOf({Skip("\\d", s, i + 1), i + 4})
    ELSE i
\* the position after (?:Z|[+-]\d{2}:?\d{2})? tried at position i
AfterOptZone(s, i) ==
    IF At(s, i) = "Z" THEN i + 1
    ELSE IF At(s, i) \in {"+", "-"} /\ DigitsAt(s, i + 1, 2)
         THEN IF At(s, i + 3) = ":" /\ DigitsAt(s, i + 4, 2) THEN i + 6
              ELSE IF DigitsAt(s, i + 3, 2) THEN i + 5 ELSE i
         ELSE i
\* \[[^\]]+\] at position i: the position after the closing bracket, or 0
AfterBracket(s, i) ==
    IF At(s, i) = "[" /\ PositionsOf(s, "]", i + 1) # {}
                      /\ MinOf(PositionsOf(s, "]", i + 1)) > i + 1
    THEN MinOf(PositionsOf(s, "]", i + 1)) + 1
    ELSE 0
\* cls+ at position i: the position after the run, or 0 (0 stays 0)
AfterClass(cls, s, i) == IF i \in 1..Len(s) /\ InClass(cls, s[i]) THEN Skip(cls, s, i) ELSE 0
\* \s+ at position i: the position after it, or 0
AfterSpaces(s, i) == AfterClass("\\s", s, i)
\* \w+ at position i: the position after it, or 0
AfterWord(s, i) == AfterClass("\\w", s, i)
\* the literal text lit at position i: the position after it, or 0
AfterLit(s, i, lit) == IF i # 0 /\ LitAt(s, i, lit) THEN i + Len(lit) ELSE 0
\* \d{4}-\d{2}-\d{2} and \d{2}:\d{2}:\d{2} at position i: the position after, or 0
AfterDate(s, i) == IF i # 0 /\ DateAt(s, i) THEN i + 10 ELSE 0
AfterTime(s, i) == IF i # 0 /\ TimeAt(s, i) THEN i + 8 ELSE 0
\* \s+.+ at position i (a space, then at least one more character)
SpacesThenText(s, i) == IsSpace(At(s, i)) /\ i + 1 <= Len(s)
\* .*\|.*\|.* from position i to the end of the line: at least two pipes
TwoPipesFrom(s, i) == Cardinality(PositionsOf(s, "|", i)) >= 2

\* the result of pattern.exec(line): null, or the match with its capture groups
NoMatch == [matched |-> FALSE]
Matched(s, gs) == [matched |-> TRUE, whole |-> s, groups |-> gs]
\* match[k], undefined for a group the pattern does not have
Group(m, k) == IF k = 0 THEN m.whole
               ELSE IF k \in 1..Len(m.groups) THEN m.groups[k] ELSE Undefined

(***************************************************************************)
(* 'Spring Boot with Pipe Data': pattern and capture groups.               *)
(***************************************************************************)
SpringBootMatch(s) ==
    LET MaxOf(S) == CHOOSE x \in S : \A y \in S : x >= y
        \* the positions j of a ':' that ([^\s]+)\s*: can end on, for the run of
        \* non-space characters p..q-1: inside the run (after at least one
        \* character) or right after the spaces that follow it; the greedy run
        \* takes the last of these after which the payload has two pipes.
        SpringColonCandidates(p, q) ==
            {j \in (p + 1)..(q - 1) : s[j] = ":" /\ TwoPipesFrom(s, SkipSpaces(s, j + 1))}
            \cup (IF At(s, SkipSpaces(s, q)) = ":"
                     /\ TwoPipesFrom(s, SkipSpaces(s, SkipSpaces(s, q) + 1))
                  THEN {SkipSpaces(s, q)} ELSE {})
        \* the capture groups, for the last candidate j of the ':' (a1..a2 is the
        \* level, p..q the run of non-space characters the source is taken from)
        SpringGroups(a1, a2, p, q, cs) ==
            IF cs = {} THEN NoMatch
            ELSE Matched(s, <<SubSeq(s, 1, 29), SubSeq(s, a1, a2 - 1),
                              SubSeq(s, p, IF MaxOf(cs) < q THEN MaxOf(cs) - 1 ELSE q - 1),
                              From(s, SkipSpaces(s, MaxOf(cs) + 1))>>)
        \* ([^\s]+)\s*:\s*(.*\|.*\|.*)$ at position p
        SpringSourceAndPayload(a1, a2, p, q) ==
            SpringGroups(a1, a2, p, q, SpringColonCandidates(p, q))
        \* \s+\d+\s+---\s+\[[^\]]+\]\s+\[[^\]]+\]\s+ after the level, then the rest
        SpringAfterLevel(a1, a2, p) ==
            IF p = 0 \/ p > Len(s) THEN NoMatch
            ELSE SpringSourceAndPayload(a1, a2, p, Skip("[^\\s]", s, p))
        \* (\w+) at position a1, then the rest
        SpringLevel(a1, a2) ==
            SpringAfterLevel(a1, a2,
                AfterSpaces(s, AfterBracket(s, AfterSpaces(s, AfterBracket(s,
                    AfterSpaces(s, AfterLit(s, AfterSpaces(s, AfterClass("\\d", s,
                        AfterSpaces(s, a2))), <<"-","-","-">>)))))))
        SpringTimestamp(a1) == SpringLevel(a1, AfterWord(s, a1))
    IN  SpringTimestamp(IF OffsetTimestampAtStart(s) THEN AfterSpaces(s, 30) ELSE 0)

(***************************************************************************)
(* Records.  A Partial<LogEntry> has every field, Undefined when unset;    *)
(* additionalInfo maps a key to a tagged value (a string, an array of      *)
(* strings, or undefined), so that typeof value === 'string' is decidable. *)
(***************************************************************************)
StrVal(x) == IF x = Undefined THEN [t |-> "undefined", v |-> <<>>]
                              ELSE [t |-> "string", v |-> x]
ArrVal(a) == [t |-> "array", v |-> a]
\* additionalInfo: {}
EmptyInfo == [k \in {} |-> StrVal(Undefined)]
\* an entry whose additionalInfo property was never assigned
UndefinedInfo == [k \in {"<undefined>"} |-> StrVal(Undefined)]
\* info[key] = val
Put(info, key, val) == [k \in DOMAIN info \cup {key} |-> IF k = key THEN val ELSE info[k]]
\* info.key, a string or Undefined
InfoStr(info, key) == IF key \in DOMAIN info /\ info[key].t = "string" THEN info[key].v ELSE Undefined
\* let entry: Partial<LogEntry> = {}
EmptyEntry == [timestamp |-> Undefined, level |-> Undefined, message |-> Undefined,
               source |-> Undefined, stackTrace |-> Undefined, eventType |-> Undefined,
               additionalInfo |-> UndefinedInfo]
\* log.eventType of a LogEntry, undefined when the object has no such property
eventTypeOf(log) == IF "eventType" \in DOMAIN log THEN log.eventType ELSE Undefined

\* /^\d+\.\d+\.\d+\.\d+$/
IsIpShaped(part) == LET ds == split(part, ".")
                    IN  /\ Len(ds) = 4
                        /\ \A i \in 1..4 : Len(ds[i]) > 0 /\ \A k \in 1..Len(ds[i]) : IsDigit(ds[i][k])

s_responseEq == <<"r","e","s","p","o","n","s","e","=">>
s_ofsResponseEq == <<"o","f","s","R","e","s","p","o","n","s","e","=">>
s_TRANSACTION == <<"T","R","A","N","S","A","C","T","I","O","N">>
s_AUTH_EVENT == <<"A","U","T","H","_","E","V","E","N","T">>
s_ACCOUNT_QUERY == <<"A","C","C","O","U","N","T","_","Q","U","E","R","Y">>
s_CARD_STATUS == <<"C","A","R","D","_","S","T","A","T","U","S">>
s_ERROR == <<"E","R","R","O","R">>
s_OTHER_EVENT == <<"O","T","H","E","R","_","E","V","E","N","T">>
s_UNKNOWN == <<"U","N","K","N","O","W","N">>
\* `Transaction ${txType} with ID ${uniqueId} - Status: ${status}`
TransactionMessage(parts) ==
    <<"T","r","a","n","s","a","c","t","i","o","n"," ">> \o Show(Part(parts, 2))
    \o <<" ","w","i","t","h"," ","I","D"," ">> \o Show(Part(parts, 1))
    \o <<" ","-"," ","S","t","a","t","u","s",":"," ">> \o Show(Part(parts, 4))
\* pipeContent.split('|').map(p => p.trim())
PipeParts(pipeContent) == LET raw == split(pipeContent, "|")
                          IN  [i \in DOMAIN raw |-> trim(raw[i])]

\* logFormats[0].extract
SpringBootExtract(m) ==
    LET \* the loop over parts[5..] of the Spring Boot TRANSACTION case
        RECURSIVE SpringTransactionLoop(_, _, _)
        SpringTransactionLoop(parts, i, info) ==
            IF i >= Len(parts) THEN info
            ELSE LET part == Part(parts, i)
                 IN  SpringTransactionLoop(parts, i + 1,
                        IF startsWith(part, s_responseEq)
                        THEN Put(info, "response", StrVal(From(part, 10)))
                        ELSE IF startsWith(part, s_ofsResponseEq)
                        THEN Put(info, "ofsResponse", StrVal(From(part, 13)))
                        ELSE IF IsIpShaped(part)
                        THEN Put(info, "remoteAddr", StrVal(part))
                        ELSE info)
        pipeContent == trim(Group(m, 4))
        parts == PipeParts(pipeContent)
        logType == Part(parts, 0)
        base == [EmptyEntry EXCEPT !.timestamp = Group(m, 1), !.level = Group(m, 2),
                                   !.source = Group(m, 3),
                                   !.eventType = logType]
    IN  IF logType = s_TRANSACTION
        THEN [base EXCEPT
                !.additionalInfo =
                    SpringTransactionLoop(parts, 5,
                        Put(Put(Put(EmptyInfo, "uniqueId", StrVal(Part(parts, 1))),
                                "txType", StrVal(Part(parts, 2))),
                            "status", StrVal(Part(parts, 4)))),
                !.message = TransactionMessage(parts)]
        ELSE [base EXCEPT !.additionalInfo = Put(EmptyInfo, "parts", ArrVal(parts)),
                          !.message = pipeContent]

(***************************************************************************)
(* 'Tomcat/Catalina', 'ISO DateTime', 'Simple DateTime', 'Common Format'   *)
(* and 'Syslog-like': the patterns have no capture group, so match[1],     *)
(* match[2], ... are undefined in the extractors.                          *)
(***************************************************************************)

TomcatMatch(s) ==
    LET \* \d{n} at position i: the position after it, or 0
        AfterDigitsN(i, n) == IF i # 0 /\ DigitsAt(s, i, n) THEN i + n ELSE 0
    IN  IF SpacesThenText(s,
             AfterLit(s, AfterSpaces(s, AfterClass("[^\\s-]", s, AfterSpaces(s, AfterBracket(s,
                AfterSpaces(s, AfterWord(s, AfterSpaces(s, AfterDigitsN(AfterLit(s, AfterTime(s, AfterSpaces(s, AfterDate(s, 1))), <<",">>), 3)))))))),
                <<"-">>))
        THEN Matched(s, <<>>) ELSE NoMatch
TomcatExtract(m) ==
    [EmptyEntry EXCEPT !.timestamp = Group(m, 1), !.level = Group(m, 2),
                       !.source = Group(m, 4), !.message = Group(m, 5),
                       !.additionalInfo = Put(EmptyInfo, "thread", StrVal(Group(m, 3)))]

IsoMatch(s) ==
    LET \* \d+ at position i: the position after it, or 0
        \* \s* at position i: the position after it (0 stays 0)
        AfterOptSpaces(i) == IF i = 0 THEN 0 ELSE SkipSpaces(s, i)
    IN  IF SpacesThenText(s,
             AfterLit(s, AfterWord(s, AfterLit(s, AfterOptSpaces(AfterOptZone(s, AfterOptMillis(s,
                AfterTime(s, AfterLit(s, AfterDate(s, 1), <<"T">>))))), <<"[">>)), <<"]">>))
        THEN Matched(s, <<>>) ELSE NoMatch
IsoExtract(m) ==
    [EmptyEntry EXCEPT !.timestamp = Group(m, 1), !.level = Group(m, 2), !.message = Group(m, 3)]

SimpleMatch(s) ==
    IF SpacesThenText(s,
         AfterWord(s, AfterSpaces(s, AfterOptMillis(s, AfterTime(s, AfterSpaces(s, AfterDate(s, 1)))))))
    THEN Matched(s, <<>>) ELSE NoMatch
SimpleExtract(m) ==
    [EmptyEntry EXCEPT !.timestamp = Group(m, 1), !.level = Group(m, 2), !.message = Group(m, 3)]

CommonMatch(s) ==
    IF SpacesThenText(s, AfterLit(s, AfterWord(s, AfterSpaces(s, AfterBracket(s, 1))), <<":">>))
    THEN Matched(s, <<>>) ELSE NoMatch
CommonExtract(m) ==
    [EmptyEntry EXCEPT !.timestamp = Group(m, 1), !.level = Group(m, 2), !.message = Group(m, 3)]

SyslogMatch(s) ==
    LET \* \w{3} at the start of the line: the position after it, or 0
        AfterMonth(s0) ==
            IF IsWordCh(At(s0, 1)) /\ IsWordCh(At(s0, 2)) /\ IsWordCh(At(s0, 3)) THEN 4 ELSE 0
        \* \d{1,2} at position i: the position after it, or 0
        AfterDay(i) ==
            IF i # 0 /\ IsDigit(At(s, i)) THEN (IF IsDigit(At(s, i + 1)) THEN i + 2 ELSE i + 1) ELSE 0
        \* the run i..e-1 of non-space characters ends with [digits], after at
        \* least one character: the position e, or 0
        HostPidEnd(i, e) ==
            IF \E j \in (i + 1)..(e - 3) :
                  /\ s[j] = "[" /\ s[e - 1] = "]"
                  /\ \A k \in (j + 1)..(e - 2) : IsDigit(s[k])
            THEN e ELSE 0
        \* \S+\[\d+\] at position i: the position after it, or 0
        AfterHostPid(i) ==
            IF i = 0 \/ i > Len(s) THEN 0 ELSE HostPidEnd(i, Skip("[^\\s]", s, i))
    IN  IF SpacesThenText(s,
             AfterLit(s, AfterWord(s, AfterSpaces(s, AfterHostPid(AfterSpaces(s, AfterTime(s, AfterSpaces(s, AfterDay(AfterSpaces(s, AfterMonth(s))))))))),
                <<":">>))
        THEN Matched(s, <<>>) ELSE NoMatch
SyslogExtract(m) ==
    [EmptyEntry EXCEPT !.timestamp = Group(m, 1), !.source = Group(m, 2),
                       !.level = Group(m, 4), !.message = Group(m, 5),
                       !.additionalInfo = Put(EmptyInfo, "pid", StrVal(Group(m, 3)))]

(***************************************************************************)
(* 'Dynamic Pipe Separated' (the registry's fifth entry).                  *)
(***************************************************************************)
\* /^.*?:\s*(.*\|.*\|.*)$/ : the lazy prefix stops at the first ':' after
\* which the line still holds two pipes
DynamicPipeMatch(s) ==
    LET cs == {j \in 1..Len(s) : s[j] = ":" /\ TwoPipesFrom(s, j + 1)}
    IN  IF cs = {} THEN NoMatch
        ELSE Matched(s, <<From(s, SkipSpaces(s, MinOf(cs) + 1))>>)


\* the three `if` statements after the switch with `if (levelMatch)` for the
\* second: the level found in the line replaces the level of the payload
WithProbes_LevelAlways(entry, fullLine, levelMatch, sourceMatch) ==
    [entry EXCEPT
        !.timestamp = IF OffsetTimestampAtStart(fullLine) THEN SubSeq(fullLine, 1, 29) ELSE @,
        !.level = IF levelMatch # Undefined THEN levelMatch ELSE @,
        !.source = IF sourceMatch # Undefined THEN sourceMatch ELSE @]
\* the three `if` statements after the switch: the offset timestamp at the
\* start of the full line, the level when the switch gave none, the source
WithProbes(entry, fullLine, levelMatch, sourceMatch) ==
    [entry EXCEPT
        !.timestamp = IF OffsetTimestampAtStart(fullLine) THEN SubSeq(fullLine, 1, 29) ELSE @,
        !.level = IF levelMatch # Undefined /\ ~Truthy(@) THEN levelMatch ELSE @,
        !.source = IF sourceMatch # Undefined THEN sourceMatch ELSE @]
\* logFormats[4].extract
DynamicPipeExtract(m) ==
    LET \* the switch (logType) of the extractor
        DynamicPipeSwitch(parts) ==
            LET \* the loop over parts0[5..] of the generic TRANSACTION case
                RECURSIVE DynamicTransactionLoop(_, _, _)
                DynamicTransactionLoop(parts0, i, info) ==
                    IF i >= Len(parts0) THEN info
                    ELSE LET part == Part(parts0, i)
                         IN  DynamicTransactionLoop(parts0, i + 1,
                                IF startsWith(part, s_responseEq)
                                THEN Put(info, "response", StrVal(From(part, 10)))
                                ELSE IF startsWith(part, s_ofsResponseEq)
                                THEN Put(info, "ofsResponse", StrVal(From(part, 13)))
                                ELSE IF ~Truthy(InfoStr(info, "remoteAddr")) /\ IsIpShaped(part)
                                THEN Put(info, "remoteAddr", StrVal(part))
                                ELSE IF Truthy(part) /\ ~Truthy(InfoStr(info, "response"))
                                                     /\ ~Truthy(InfoStr(info, "ofsResponse"))
                                THEN Put(info, "response", StrVal(part))
                                ELSE info)
                \* info[k1] = parts0[i1]; info[k2] = parts0[i2]; ... in order
                RECURSIVE PutParts(_, _, _)
                PutParts(info, parts0, kis) ==
                    IF Len(kis) = 0 THEN info
                    ELSE PutParts(Put(info, kis[1][1], StrVal(Part(parts0, kis[1][2]))), parts0, Tail(kis))
                \* parts0.slice(3, parts0.length - 2)
                CustomFields(parts0) == IF Len(parts0) - 2 > 3 THEN SubSeq(parts0, 4, Len(parts0) - 2) ELSE <<>>
                \* entry.additionalInfo[`customField${idx+1}`] = customFields[idx], for every idx
                RECURSIVE PutCustomFields(_, _, _)
                PutCustomFields(info, fields, idx) ==
                    IF idx >= Len(fields) THEN info
                    ELSE PutCustomFields(Put(info, "customField" \o ToString(idx + 1), StrVal(fields[idx + 1])),
                                         fields, idx + 1)
                logType == Part(parts, 0)
                entry == [EmptyEntry EXCEPT !.eventType = logType]
            IN  IF logType = s_AUTH_EVENT THEN
                    [entry EXCEPT
                       !.timestamp = Part(parts, 1),
                       !.additionalInfo = PutParts(EmptyInfo, parts,
                            <<<<"username", 2>>, <<"remoteAddr", 3>>, <<"action", 4>>,
                              <<"response", 5>>, <<"ofsResponse", 6>>>>),
                       !.message = <<"A","u","t","h","e","n","t","i","c","a","t","i","o","n"," ","e","v","e","n","t"," ","f","o","r"," ","u","s","e","r"," ">>
                                   \o Show(Part(parts, 2))]
                ELSE IF logType = s_ACCOUNT_QUERY THEN
                    [entry EXCEPT
                       !.timestamp = Part(parts, 2),
                       !.additionalInfo = PutParts(EmptyInfo, parts,
                            <<<<"accountNo", 1>>, <<"remoteAddr", 3>>, <<"status", 4>>,
                              <<"response", 5>>, <<"ofsResponse", 6>>>>),
                       !.message = <<"A","c","c","o","u","n","t"," ","q","u","e","r","y"," ","f","o","r"," ">>
                                   \o Show(Part(parts, 1))]
                ELSE IF logType = s_CARD_STATUS THEN
                    [entry EXCEPT
                       !.timestamp = Part(parts, 2),
                       !.additionalInfo = PutParts(EmptyInfo, parts,
                            <<<<"cardNo", 1>>, <<"remoteAddr", 3>>, <<"action", 4>>, <<"status", 5>>,
                              <<"response", 6>>, <<"ofsResponse", 7>>>>),
                       !.message = <<"C","a","r","d"," ","s","t","a","t","u","s"," ","c","h","e","c","k"," ","f","o","r"," ">>
                                   \o Show(Part(parts, 1))]
                ELSE IF logType = s_TRANSACTION THEN
                    [entry EXCEPT
                       !.timestamp = Part(parts, 3),
                       !.additionalInfo = DynamicTransactionLoop(parts, 5,
                            PutParts(EmptyInfo, parts, <<<<"uniqueId", 1>>, <<"txType", 2>>, <<"status", 4>>>>)),
                       !.message = TransactionMessage(parts)]
                ELSE IF logType = s_ERROR THEN
                    [entry EXCEPT
                       !.timestamp = Part(parts, 2),
                       !.level = s_ERROR,
                       !.message = OrElse(Part(parts, 5),
                                          <<"E","r","r","o","r"," ","e","v","e","n","t"," ","f","o","r"," ">>
                                          \o Show(Part(parts, 1))),
                       !.additionalInfo = PutParts(EmptyInfo, parts,
                            <<<<"uniqueId", 1>>, <<"eventType", 3>>, <<"status", 4>>,
                              <<"response", 6>>, <<"ofsResponse", 7>>>>)]
                ELSE IF logType = s_OTHER_EVENT THEN
                    [entry EXCEPT
                       !.timestamp = Part(parts, 1),
                       !.additionalInfo =
                            PutParts(PutCustomFields(Put(EmptyInfo, "remoteAddr", StrVal(Part(parts, 2))),
                                                     CustomFields(parts), 0),
                                     parts, <<<<"response", Len(parts) - 2>>, <<"ofsResponse", Len(parts) - 1>>>>),
                       !.message = <<"O","t","h","e","r"," ","e","v","e","n","t",":"," ">>
                                   \o join(CustomFields(parts), <<",", " ">>)]
                ELSE
                    [entry EXCEPT
                       !.additionalInfo = Put(EmptyInfo, "parts", ArrVal(parts)),
                       !.message = <<"U","n","k","n","o","w","n"," ","l","o","g"," ","t","y","p","e",":"," ">>
                                   \o Show(logType)]
        SpacedLevelProbe(s) ==
            LET \* fullLine.match(/\s+(INFO|ERROR|WARN|DEBUG|TRACE)\s+/): group 1 of the
                \* leftmost match, or Undefined
                LevelKeywords == {<<"I","N","F","O">>, s_ERROR, <<"W","A","R","N">>,
                                  <<"D","E","B","U","G">>, <<"T","R","A","C","E">>}
                hits == {p \in 2..Len(s) :
                            /\ IsSpace(s[p - 1])
                            /\ \E kw \in LevelKeywords : LitAt(s, p, kw) /\ IsSpace(At(s, p + Len(kw)))}
            IN  IF hits = {} THEN Undefined
                ELSE LET p == MinOf(hits)
                     IN  CHOOSE kw \in LevelKeywords : LitAt(s, p, kw) /\ IsSpace(At(s, p + Len(kw)))
        \* fullLine.match(/\]\s+([a-zA-Z0-9_.]+)\s+:/): group 1 of the leftmost
        \* match, or Undefined
        SourceProbe(s) ==
            LET \* the end of the run of [a-zA-Z0-9_.] that follows `]\s+` at position j
                SourceEnd(j) == Skip("[a-zA-Z0-9_.]", s, SkipSpaces(s, j + 1))
                \* the positions of a `]` where /\]\s+([a-zA-Z0-9_.]+)\s+:/ matches
                SourceHits(s0) ==
                    {j \in 1..Len(s0) :
                        /\ s0[j] = "]" /\ IsSpace(At(s0, j + 1))
                        /\ InClass("[a-zA-Z0-9_.]", At(s0, SkipSpaces(s0, j + 1)))
                        /\ IsSpace(At(s0, SourceEnd(j)))
                        /\ At(s0, SkipSpaces(s0, SourceEnd(j))) = ":"}
                \* group 1 of the leftmost of the matches
                SourceFrom(hits) ==
                    IF hits = {} THEN Undefined
                    ELSE SubSeq(s, SkipSpaces(s, MinOf(hits) + 1), SourceEnd(MinOf(hits)) - 1)
            IN  SourceFrom(SourceHits(s))
    IN  WithProbes(DynamicPipeSwitch(PipeParts(trim(Group(m, 1)))), Group(m, 0),
                   SpacedLevelProbe(Group(m, 0)), SourceProbe(Group(m, 0)))

(***************************************************************************)
(* The clock.  new Date() reads a clock that never runs backwards; reading *)
(* k is shown by toISOString() as 2030-01-01T00:00:0k.000Z.                *)
(***************************************************************************)
DigitChar(n) == <<"0","1","2","3","4","5","6","7","8","9">>[n + 1]
DigitVal(c) == CHOOSE n \in 0..9 : DigitChar(n) = c
\* new Date().toISOString() at clock reading k
NowISOString(k) == <<"2","0","3","0","-","0","1","-","0","1","T","0","0",":","0","0",":","0">>
                   \o <<DigitChar(k)>> \o <<".","0","0","0","Z">>

(***************************************************************************)
(* new Date(text) and Date.prototype.toISOString.                          *)
(***************************************************************************)
\* the offset, in minutes east of UTC, of the zone new Date() reads a text
\* without zone designator in
LocalOffsetMinutes == 0
\* the number a run of digits denotes
RECURSIVE Num(_)
Num(s) == IF Len(s) = 0 THEN 0 ELSE 10 * Num(SubSeq(s, 1, Len(s) - 1)) + DigitVal(s[Len(s)])
\* n in w digits, zero-padded
RECURSIVE Pad(_, _)
Pad(n, w) == IF w = 0 THEN <<>> ELSE Pad(n \div 10, w - 1) \o <<DigitChar(n % 10)>>
DaysInMonth(y, m) == IF m = 2 THEN (IF (y % 4 = 0 /\ y % 100 # 0) \/ y % 400 = 0 THEN 29 ELSE 28)
                     ELSE IF m \in {4, 6, 9, 11} THEN 30 ELSE 31
\* new Date(text): the date-time forms `date[T ]time[.mmm][zone]`; every
\* other text is an Invalid Date
DateParse(ts) ==
    LET InvalidDate == [valid |-> FALSE]
        \* the fields of a date-time text: its date and time, the milliseconds
        \* (which end before pm) and the zone designator (which ends before pz)
        DateFields(pm, pz, msDigits) ==
            [valid |-> TRUE,
             y |-> Num(SubSeq(ts, 1, 4)), mo |-> Num(SubSeq(ts, 6, 7)), d |-> Num(SubSeq(ts, 9, 10)),
             h |-> Num(SubSeq(ts, 12, 13)), mi |-> Num(SubSeq(ts, 15, 16)), sec |-> Num(SubSeq(ts, 18, 19)),
             ms |-> Num(msDigits \o [i \in 1..(3 - Len(msDigits)) |-> "0"]),
             off |-> IF pz = pm THEN LocalOffsetMinutes
                     ELSE IF At(ts, pm) = "Z" THEN 0
                     ELSE (IF At(ts, pm) = "-" THEN -1 ELSE 1)
                          * (60 * Num(SubSeq(ts, pm + 1, pm + 2)) + Num(SubSeq(ts, pz - 2, pz - 1)))]
        \* the fields when they denote a date, an Invalid Date otherwise
        CheckedDate(pz, date) ==
            IF pz = Len(ts) + 1 /\ date.mo \in 1..12 /\ date.d \in 1..DaysInMonth(date.y, date.mo)
               /\ date.h <= 23 /\ date.mi <= 59 /\ date.sec <= 59
            THEN date ELSE InvalidDate
        DateWithZone(pm, pz) ==
            CheckedDate(pz, DateFields(pm, pz, IF pm > 20 THEN SubSeq(ts, 21, pm - 1) ELSE <<>>))
    IN  IF ~(DateAt(ts, 1) /\ (At(ts, 11) = "T" \/ IsSpace(At(ts, 11))) /\ TimeAt(ts, 12))
        THEN InvalidDate
        ELSE DateWithZone(AfterOptMillis(ts, 20), AfterOptZone(ts, AfterOptMillis(ts, 20)))
\* the day the UTC instant falls on: the day before (-1), the same, the next
ShiftOf(total) == IF total < 0 THEN -1 ELSE IF total >= 1440 THEN 1 ELSE 0
\* year, month and day of the date `shift` days from date
ShiftedDay(date, shift, prevYear, prevMonth) ==
    IF shift = -1 /\ date.d = 1
        THEN <<prevYear, prevMonth, DaysInMonth(prevYear, prevMonth)>>
    ELSE IF shift = 1 /\ date.d = DaysInMonth(date.y, date.mo)
        THEN <<IF date.mo = 12 THEN date.y + 1 ELSE date.y,
               IF date.mo = 12 THEN 1 ELSE date.mo + 1, 1>>
    ELSE <<date.y, date.mo, date.d + shift>>
ISOParts(date, ymd, minutes) ==
    Pad(ymd[1], 4) \o <<"-">> \o Pad(ymd[2], 2) \o <<"-">> \o Pad(ymd[3], 2) \o <<"T">>
    \o Pad(minutes \div 60, 2) \o <<":">> \o Pad(minutes % 60, 2) \o <<":">>
    \o Pad(date.sec, 2) \o <<".">> \o Pad(date.ms, 3) \o <<"Z">>
\* date.toISOString() with the UTC fields followed by `+01:00` instead of `Z`
toISOString_PlusOne(date) ==
    SubSeq(ISOParts(date,
                    ShiftedDay(date, ShiftOf(60 * date.h + date.mi - date.off),
                               IF date.mo = 1 THEN date.y - 1 ELSE date.y,
                               IF date.mo = 1 THEN 12 ELSE date.mo - 1),
                    60 * date.h + date.mi - date.off
                        - 1440 * ShiftOf(60 * date.h + date.mi - date.off)), 1, 23)
    \o <<"+","0","1",":","0","0">>
\* date.toISOString(): the instant in UTC, as YYYY-MM-DDTHH:mm:ss.sssZ
toISOString(date) ==
    ISOParts(date,
             ShiftedDay(date, ShiftOf(60 * date.h + date.mi - date.off),
                        IF date.mo = 1 THEN date.y - 1 ELSE date.y,
                        IF date.mo = 1 THEN 12 ELSE date.mo - 1),
             60 * date.h + date.mi - date.off
                 - 1440 * ShiftOf(60 * date.h + date.mi - date.off))
\* timestamp.replace(',', '.'): the first comma only
ReplaceFirstComma(ts) ==
    IF PositionsOf(ts, ",", 1) = {} THEN ts
    ELSE [ts EXCEPT ![MinOf(PositionsOf(ts, ",", 1))] = "."]
\* LogParser.normalizeTimestamp; `now` is the clock reading of the catch branch
normalizeTimestamp(timestamp, now) ==
    IF DateParse(ReplaceFirstComma(timestamp)).valid
    THEN toISOString(DateParse(ReplaceFirstComma(timestamp)))
    ELSE NowISOString(now)

(***************************************************************************)
(* LogParser.extractBasicInfo.                                             *)
(***************************************************************************)
\* line.match(/\d{4}-\d{2}-\d{2}[T\s]\d{2}:\d{2}:\d{2}/)[0], or Undefined
BasicTimestampProbe(line) ==
    LET hits == {i \in 1..Len(line) :
                    DateAt(line, i) /\ (At(line, i + 10) = "T" \/ IsSpace(At(line, i + 10)))
                    /\ TimeAt(line, i + 11)}
    IN  IF hits = {} THEN Undefined ELSE SubSeq(line, MinOf(hits), MinOf(hits) + 18)
\* line.match(/\b(ERROR|WARN(?:ING)?|INFO|DEBUG|TRACE)\b/i)[0], or Undefined
BasicLevelProbe(line) ==
    LET \* the alternatives of (ERROR|WARN(?:ING)?|INFO|DEBUG|TRACE), in the order
        \* the regular expression tries them (the optional ING greedily first)
        BasicLevelAlternatives == <<s_ERROR, <<"W","A","R","N","I","N","G">>, <<"W","A","R","N">>,
                                    <<"I","N","F","O">>, <<"D","E","B","U","G">>, <<"T","R","A","C","E">>>>
        \* alternative a matches at position i, case-insensitively, between two \b
        LevelWordAt(i, a) ==
            /\ ~IsWordCh(At(line, i - 1))
            /\ i + Len(a) - 1 <= Len(line)
            /\ toUpperCase(SubSeq(line, i, i + Len(a) - 1)) = a
            /\ ~IsWordCh(At(line, i + Len(a)))
        alts == DOMAIN BasicLevelAlternatives
        hits == {i \in 1..Len(line) : \E a \in alts : LevelWordAt(i, BasicLevelAlternatives[a])}
    IN  IF hits = {} THEN Undefined
        ELSE LET i == MinOf(hits)
                 a == MinOf({b \in alts : LevelWordAt(i, BasicLevelAlternatives[b])})
             IN  SubSeq(line, i, i + Len(BasicLevelAlternatives[a]) - 1)
\* null
Null == [null |-> TRUE]

(***************************************************************************)
(* LogParser.parseLogContent: the format cascade and the fallbacks.        *)
(***************************************************************************)
\* the loop over a registry whose generic pipe entry comes first
Cascade_PipeFirst(spring, tomcat, iso, simple, pipe, common, syslog) ==
    IF pipe.matched THEN DynamicPipeExtract(pipe)
    ELSE IF spring.matched THEN SpringBootExtract(spring)
    ELSE IF tomcat.matched THEN TomcatExtract(tomcat)
    ELSE IF iso.matched THEN IsoExtract(iso)
    ELSE IF simple.matched THEN SimpleExtract(simple)
    ELSE IF common.matched THEN CommonExtract(common)
    ELSE IF syslog.matched THEN SyslogExtract(syslog)
    ELSE Null
\* `if (match) { parsed = format.extract(match, line); break; }` for the
\* matches of the seven patterns, in the order of the registry
Cascade(spring, tomcat, iso, simple, pipe, common, syslog) ==
    IF spring.matched THEN SpringBootExtract(spring)
    ELSE IF tomcat.matched THEN TomcatExtract(tomcat)
    ELSE IF iso.matched THEN IsoExtract(iso)
    ELSE IF simple.matched THEN SimpleExtract(simple)
    ELSE IF pipe.matched THEN DynamicPipeExtract(pipe)
    ELSE IF common.matched THEN CommonExtract(common)
    ELSE IF syslog.matched THEN SyslogExtract(syslog)
    ELSE Null
\* the `for (const format of this.logFormats)` loop: the entry of the first
\* format whose pattern matches, or Null
FormatCascade(line) ==
    Cascade(SpringBootMatch(line), TomcatMatch(line), IsoMatch(line), SimpleMatch(line),
            DynamicPipeMatch(line), CommonMatch(line), SyslogMatch(line))
\* attemptedFormats once every format has been tried without a match
AllFormatNames ==
    << <<"S","p","r","i","n","g"," ","B","o","o","t"," ","w","i","t","h"," ","P","i","p","e"," ","D","a","t","a">>,
       <<"T","o","m","c","a","t","/","C","a","t","a","l","i","n","a">>,
       <<"I","S","O"," ","D","a","t","e","T","i","m","e">>,
       <<"S","i","m","p","l","e"," ","D","a","t","e","T","i","m","e">>,
       <<"D","y","n","a","m","i","c"," ","P","i","p","e"," ","S","e","p","a","r","a","t","e","d">>,
       <<"C","o","m","m","o","n"," ","F","o","r","m","a","t">>,
       <<"S","y","s","l","o","g","-","l","i","k","e">> >>
\* the unknown-format fallback with `message: line.trim()`
UnknownEntry_Trimmed(line, now) ==
    [EmptyEntry EXCEPT
        !.timestamp = NowISOString(now),
        !.level = s_UNKNOWN,
        !.message = trim(line),
        !.additionalInfo =
            Put(Put(Put(EmptyInfo, "parseNote",
                        StrVal(<<"N","o"," ","m","a","t","c","h","i","n","g"," ","f","o","r","m","a","t"," ","f","o","u","n","d">>)),
                    "attemptedFormats", ArrVal(AllFormatNames)),
                "originalLine", StrVal(line))]
\* the `unknown` entry of the last fallback
UnknownEntry(line, now) ==
    [EmptyEntry EXCEPT
        !.timestamp = NowISOString(now),
        !.level = s_UNKNOWN,
        !.message = line,
        !.additionalInfo =
            Put(Put(Put(EmptyInfo, "parseNote",
                        StrVal(<<"N","o"," ","m","a","t","c","h","i","n","g"," ","f","o","r","m","a","t"," ","f","o","u","n","d">>)),
                    "attemptedFormats", ArrVal(AllFormatNames)),
                "originalLine", StrVal(line))]
\* `if (!parsed) {...}`: the entry that becomes current when the cascade
\* returned `parsed`: the basic extractor's, else the `unknown` one
Fallbacks(line, now, parsed) ==
    LET \* extractBasicInfo(line0): the entry, or Null; `now` is the clock reading
        extractBasicInfo(line0) ==
            LET \* the object extractBasicInfo returns for its two matches
                BasicInfo(timestampMatch, levelMatch) ==
                    IF timestampMatch # Undefined \/ levelMatch # Undefined
                    THEN [EmptyEntry EXCEPT
                            !.timestamp = IF timestampMatch # Undefined THEN timestampMatch ELSE NowISOString(now),
                            !.level = IF levelMatch # Undefined THEN toUpperCase(levelMatch) ELSE s_UNKNOWN,
                            !.message = line0,
                            !.additionalInfo = Put(EmptyInfo, "parseNote",
                                StrVal(<<"P","a","r","t","i","a","l"," ","m","a","t","c","h"," ","u","s","i","n","g"," ","b","a","s","i","c"," ","e","x","t","r","a","c","t","i","o","n">>))]
                    ELSE Null
            IN  BasicInfo(BasicTimestampProbe(line0), BasicLevelProbe(line0))
    IN  IF parsed # Null THEN parsed
        ELSE IF extractBasicInfo(line) # Null THEN extractBasicInfo(line)
        ELSE UnknownEntry(line, now)
\* the entry a record-starting line creates: cascade, basic extractor, unknown
StartEntry(line, now) == Fallbacks(line, now, FormatCascade(line))

\* !line.trim()
IsBlank(line) == trim(line) = <<>>
\* line.trim().startsWith('at ') || line.trim().startsWith('Caused by: ')
\*   || line.match(/^\s+at\s+/)
s_at == <<"a","t"," ">>
\* the stack-trace test without its `Caused by: ` alternative
LooksLikeStackTrace_NoCausedBy(line) ==
    \/ startsWith(trim(line), s_at)
    \/ /\ IsSpace(At(line, 1))
       /\ LitAt(line, SkipSpaces(line, 1), <<"a","t">>)
       /\ IsSpace(At(line, SkipSpaces(line, 1) + 2))
LooksLikeStackTrace(line) ==
    LET s_CausedBy == <<"C","a","u","s","e","d"," ","b","y",":"," ">>
    IN  \/ startsWith(trim(line), s_at)
        \/ startsWith(trim(line), s_CausedBy)
        \/ /\ IsSpace(At(line, 1))
           /\ LitAt(line, SkipSpaces(line, 1), <<"a","t">>)
           /\ IsSpace(At(line, SkipSpaces(line, 1) + 2))

\* the pushed object with `level: currentEntry.level || 'UNKNOWN'`, not upper-cased
FinalizedEntry_LevelAsIs(cur, stack, t1, t2) ==
    [timestamp |-> normalizeTimestamp(OrElse(cur.timestamp, NowISOString(t1)), t2),
     level |-> OrElse(cur.level, s_UNKNOWN),
     message |-> OrElse(cur.message, <<>>),
     source |-> cur.source,
     stackTrace |-> IF Len(stack) > 0 THEN join(stack, <<"\n">>) ELSE cur.stackTrace,
     additionalInfo |-> IF cur.additionalInfo = UndefinedInfo THEN EmptyInfo
                        ELSE cur.additionalInfo]
\* the object finalizeCurrentEntry pushes; t1 is the clock reading of
\* `new Date()` in the push, t2 that of normalizeTimestamp's catch branch
FinalizedEntry(cur, stack, t1, t2) ==
    [timestamp |-> normalizeTimestamp(OrElse(cur.timestamp, NowISOString(t1)), t2),
     level |-> toUpperCase(OrElse(cur.level, s_UNKNOWN)),
     message |-> OrElse(cur.message, <<>>),
     source |-> cur.source,
     stackTrace |-> IF Len(stack) > 0 THEN join(stack, <<"\n">>) ELSE cur.stackTrace,
     additionalInfo |-> IF cur.additionalInfo = UndefinedInfo THEN EmptyInfo
                        ELSE cur.additionalInfo]
\* finalizeCurrentEntry storing the object in the place of the last record
finalizeCurrentEntry_Overwrite(cur, stack, ents, t1, t2) ==
    IF cur = Null THEN ents
    ELSE IF ents = <<>> THEN <<FinalizedEntry(cur, stack, t1, t2)>>
    ELSE [ents EXCEPT ![Len(ents)] = FinalizedEntry(cur, stack, t1, t2)]
\* finalizeCurrentEntry with `unshift` in the place of `push`
finalizeCurrentEntry_Unshift(cur, stack, ents, t1, t2) ==
    IF cur # Null THEN <<FinalizedEntry(cur, stack, t1, t2)>> \o ents ELSE ents
\* finalizeCurrentEntry: the value of `entries` after the call
finalizeCurrentEntry(cur, stack, ents, t1, t2) ==
    IF cur # Null THEN Append(ents, FinalizedEntry(cur, stack, t1, t2)) ELSE ents

\* the clock readings a call can return: finalizeCurrentEntry reads the
\* clock for `new Date()` only when the entry has no timestamp, and
\* normalizeTimestamp only in its catch branch
PushReadings(cur, from) ==
    IF cur # Null /\ ~Truthy(cur.timestamp) THEN from..MaxClock ELSE {from}
CatchReadings(cur, t1) ==
    IF cur # Null /\ ~DateParse(ReplaceFirstComma(OrElse(cur.timestamp, NowISOString(t1)))).valid
    THEN t1..MaxClock ELSE {t1}

(***************************************************************************)
(* LogParser.filterLogs.                                                   *)
(***************************************************************************)
\* a LogFilter with no constraint: {}
EmptyFilter == [startDate |-> Undefined, endDate |-> Undefined, level |-> Undefined,
                searchTerm |-> Undefined, source |-> Undefined, accountNo |-> Undefined,
                uniqueId |-> Undefined, eventType |-> Undefined, cardNo |-> Undefined,
                username |-> Undefined, status |-> Undefined]
\* Object.values(log.additionalInfo).some(value => typeof value === 'string'
\*     && value.toLowerCase().includes(searchLower))
SomeInfoStringIncludes(info, searchLower) ==
    \E k \in DOMAIN info : info[k].t = "string" /\ includes(toLowerCase(info[k].v), searchLower)
\* the searchTerm expression without its `log.source` alternative
MatchesSearchTerm_NoSource(log, searchTerm) ==
    LET searchLower == toLowerCase(searchTerm)
    IN  \/ includes(toLowerCase(log.message), searchLower)
        \/ (Truthy(log.stackTrace) /\ includes(toLowerCase(log.stackTrace), searchLower))
        \/ (Truthy(log.level) /\ includes(toLowerCase(log.level), searchLower))
        \/ (Truthy(eventTypeOf(log)) /\ includes(toLowerCase(eventTypeOf(log)), searchLower))
        \/ SomeInfoStringIncludes(log.additionalInfo, searchLower)
\* the expression the searchTerm branch returns
MatchesSearchTerm(log, searchTerm) ==
    LET searchLower == toLowerCase(searchTerm)
    IN  \/ includes(toLowerCase(log.message), searchLower)
        \/ (Truthy(log.source) /\ includes(toLowerCase(log.source), searchLower))
        \/ (Truthy(log.stackTrace) /\ includes(toLowerCase(log.stackTrace), searchLower))
        \/ (Truthy(log.level) /\ includes(toLowerCase(log.level), searchLower))
        \/ (Truthy(eventTypeOf(log)) /\ includes(toLowerCase(eventTypeOf(log)), searchLower))
        \/ SomeInfoStringIncludes(log.additionalInfo, searchLower)
\* the callback of logs.filter
FilterCallback(log, filter) ==
    LET \* a < b for two Dates: the instant of an Invalid Date is NaN, and every
        \* comparison with NaN is false; the instants of valid dates compare as
        \* their toISOString() texts do, digit by digit
        DateLess(a, b) ==
            LET \* x before y, for two texts of toISOString()
                DigitsLess(x, y) ==
                    \E i \in 1..Len(x) :
                        /\ IsDigit(x[i]) /\ DigitVal(x[i]) < DigitVal(y[i])
                        /\ \A j \in 1..(i - 1) : x[j] = y[j]
            IN  a.valid /\ b.valid /\ DigitsLess(toISOString(a), toISOString(b))
        \* log.additionalInfo.key === value || log.message.includes(value)
        InInfoOrMessage(key, value) ==
            \/ InfoStr(log.additionalInfo, key) = value
            \/ (Truthy(log.message) /\ includes(log.message, value))
        \* the checks of the callback in the order of the source, each returning
        \* false as soon as it fails; timestampDate is `new Date(log.timestamp)`
        FilterChecks(timestampDate) ==
                IF filter.startDate # Undefined /\ DateLess(timestampDate, DateParse(filter.startDate))
                THEN FALSE
                ELSE IF filter.endDate # Undefined /\ DateLess(DateParse(filter.endDate), timestampDate)
                THEN FALSE
                ELSE IF Truthy(filter.level) /\ toUpperCase(log.level) # toUpperCase(filter.level)
                THEN FALSE
                ELSE IF Truthy(filter.source) /\ Truthy(log.source) /\ ~includes(log.source, filter.source)
                THEN FALSE
                ELSE IF Truthy(filter.uniqueId)
                        /\ ~InInfoOrMessage("uniqueId", filter.uniqueId)
                        /\ log.level # filter.uniqueId
                THEN FALSE
                ELSE IF Truthy(filter.accountNo)
                        /\ ~InInfoOrMessage("accountNo", filter.accountNo)
                        /\ log.level # filter.accountNo
                THEN FALSE
                ELSE IF Truthy(filter.cardNo)
                        /\ ~InInfoOrMessage("cardNo", filter.cardNo)
                        /\ log.level # filter.cardNo
                THEN FALSE
                ELSE IF Truthy(filter.username) /\ ~InInfoOrMessage("username", filter.username)
                THEN FALSE
                ELSE IF Truthy(filter.status)
                        /\ InfoStr(log.additionalInfo, "status") # filter.status
                        /\ ~(Truthy(log.message)
                             /\ includes(toUpperCase(log.message), toUpperCase(filter.status)))
                THEN FALSE
                ELSE IF Truthy(filter.eventType)
                        /\ eventTypeOf(log) # filter.eventType
                        /\ ~(Truthy(log.message) /\ includes(log.message, filter.eventType))
                THEN FALSE
                ELSE IF Truthy(filter.searchTerm)
                THEN MatchesSearchTerm(log, filter.searchTerm)
                ELSE TRUE
    IN  FilterChecks(DateParse(log.timestamp))
\* filterLogs that stops at the first record the callback accepts
RECURSIVE filterLogs_FirstOnly(_, _)
filterLogs_FirstOnly(logs, filter) ==
    IF Len(logs) = 0 THEN <<>>
    ELSE IF FilterCallback(logs[1], filter) THEN <<logs[1]>>
    ELSE filterLogs_FirstOnly(Tail(logs), filter)
\* filterLogs that returns the accepted records last to first
RECURSIVE filterLogs_Reversed(_, _)
filterLogs_Reversed(logs, filter) ==
    IF Len(logs) = 0 THEN <<>>
    ELSE filterLogs_Reversed(Tail(logs), filter)
         \o (IF FilterCallback(logs[1], filter) THEN <<logs[1]>> ELSE <<>>)
\* LogParser.filterLogs: logs.filter(callback)
RECURSIVE filterLogs(_, _)
filterLogs(logs, filter) ==
    IF Len(logs) = 0 THEN <<>>
    ELSE (IF FilterCallback(logs[1], filter) THEN <<logs[1]>> ELSE <<>>)
         \o filterLogs(Tail(logs), filter)

(***************************************************************************)
(* LogParser.calculateStats.                                               *)
(***************************************************************************)
\* a number as the value of a property
NumVal(n) == [t |-> "number", v |-> n]
\* obj[key] = (obj[key] || 0) + 1 for an object that began as {}: a key the
\* object does not own is looked up in Object.prototype, whose members are
\* truthy, and a function or a string plus 1 is the text followed by "1";
\* the assignment to __proto__ of a value that is no object has no effect
Increment(obj, key) ==
    LET \* the methods every object created by {} inherits from Object.prototype
        PrototypeMethods ==
            { <<"h","a","s","O","w","n","P","r","o","p","e","r","t","y">>,
              <<"i","s","P","r","o","t","o","t","y","p","e","O","f">>,
              <<"p","r","o","p","e","r","t","y","I","s","E","n","u","m","e","r","a","b","l","e">>,
              <<"t","o","L","o","c","a","l","e","S","t","r","i","n","g">>,
              <<"t","o","S","t","r","i","n","g">>,
              <<"v","a","l","u","e","O","f">>,
              <<"_","_","d","e","f","i","n","e","G","e","t","t","e","r","_","_">>,
              <<"_","_","d","e","f","i","n","e","S","e","t","t","e","r","_","_">>,
              <<"_","_","l","o","o","k","u","p","G","e","t","t","e","r","_","_">>,
              <<"_","_","l","o","o","k","u","p","S","e","t","t","e","r","_","_">> }
        NativeFunction(name) ==
            <<"f","u","n","c","t","i","o","n"," ">> \o name
            \o <<"(",")"," ","{"," ","[","n","a","t","i","v","e"," ","c","o","d","e","]"," ","}">>
    IN  IF key \in DOMAIN obj
        THEN [obj EXCEPT ![key] = IF @.t = "number" THEN NumVal(@.v + 1)
                                  ELSE StrVal(@.v \o <<"1">>)]
        ELSE IF key = <<"_","_","p","r","o","t","o","_","_">> THEN obj
        ELSE IF key = <<"c","o","n","s","t","r","u","c","t","o","r">>
        THEN Put(obj, key, StrVal(NativeFunction(<<"O","b","j","e","c","t">>) \o <<"1">>))
        ELSE IF key \in PrototypeMethods
        THEN Put(obj, key, StrVal(NativeFunction(key) \o <<"1">>))
        ELSE Put(obj, key, NumVal(1))
\* the object `stats` starts as
InitialStats(logs) ==
    [totalEntries |-> Len(logs), errorCount |-> 0, warningCount |-> 0, infoCount |-> 0,
     sourcesDistribution |-> EmptyInfo, timeDistribution |-> EmptyInfo,
     accountNoDistribution |-> EmptyInfo, uniqueIdDistribution |-> EmptyInfo,
     eventTypeDistribution |-> EmptyInfo, statusDistribution |-> EmptyInfo,
     dateAccountNoDistribution |-> EmptyInfo, dateUniqueIdDistribution |-> EmptyInfo]
\* the switch without the `break` of case 'ERROR': an ERROR also counts as a warning
CountLevelAndSource_Fallthrough(st, log) ==
    [st EXCEPT
        !.errorCount = IF toUpperCase(log.level) = s_ERROR THEN @ + 1 ELSE @,
        !.warningCount = IF toUpperCase(log.level) \in {s_ERROR, <<"W","A","R","N">>, <<"W","A","R","N","I","N","G">>}
                         THEN @ + 1 ELSE @,
        !.infoCount = IF toUpperCase(log.level) = <<"I","N","F","O">> THEN @ + 1 ELSE @,
        !.sourcesDistribution = IF Truthy(log.source) THEN Increment(@, log.source) ELSE @]
\* the forEach callback up to `new Date(log.timestamp)`: the switch on
\* log.level.toUpperCase() and the count by source
CountLevelAndSource(st, log) ==
    [st EXCEPT
        !.errorCount = IF toUpperCase(log.level) = s_ERROR THEN @ + 1 ELSE @,
        !.warningCount = IF toUpperCase(log.level) \in {<<"W","A","R","N">>, <<"W","A","R","N","I","N","G">>}
                         THEN @ + 1 ELSE @,
        !.infoCount = IF toUpperCase(log.level) = <<"I","N","F","O">> THEN @ + 1 ELSE @,
        !.sourcesDistribution = IF Truthy(log.source) THEN Increment(@, log.source) ELSE @]

(***************************************************************************)
(* The lines the model's inputs are made of.                               *)
(***************************************************************************)
\* "2023-05-29 10:15:30,123 ERROR [t1] X - Boom"
LineTomcat == <<"2","0","2","3","-","0","5","-","2","9"," ","1","0",":","1","5",":","3","0",",","1","2","3"," ","E","R","R","O","R"," ","[","t","1","]"," ","X"," ","-"," ","B","o","o","m">>
\* "2023-05-29T10:00:00.000+00:00 info 1 --- [m] [c] a.B : TRANSACTION|TX1|PAY|2023-05-29T10:00:00+00:00|OK|response=R|ofsResponse=A"
LineSpringTransaction == <<"2","0","2","3","-","0","5","-","2","9","T","1","0",":","0","0",":","0","0",".","0","0","0","+","0","0",":","0","0"," ","i","n","f","o"," ","1"," ","-","-","-"," ","[","m","]"," ","[","c","]"," ","a",".","B"," ",":"," ","T","R","A","N","S","A","C","T","I","O","N","|","T","X","1","|","P","A","Y","|","2","0","2","3","-","0","5","-","2","9","T","1","0",":","0","0",":","0","0","+","0","0",":","0","0","|","O","K","|","r","e","s","p","o","n","s","e","=","R","|","o","f","s","R","e","s","p","o","n","s","e","=","A">>
\* "x: AUTH_EVENT|2023-05-29T10:00:00Z|bob|1.2.3.4|LOGIN|R|A"
LinePipeAuthEvent == <<"x",":"," ","A","U","T","H","_","E","V","E","N","T","|","2","0","2","3","-","0","5","-","2","9","T","1","0",":","0","0",":","0","0","Z","|","b","o","b","|","1",".","2",".","3",".","4","|","L","O","G","I","N","|","R","|","A">>
\* "  at a.b(C)"
LineIndentedAt == <<" "," ","a","t"," ","a",".","b","(","C",")">>
\* "Caused by: x"
LineCausedBy == <<"C","a","u","s","e","d"," ","b","y",":"," ","x">>
\* " "
LineBlank == <<" ">>
\* "hello"
LineUnknown == <<"h","e","l","l","o">>
\* "2023-13-29 10:15:30 oops": the shape of a timestamp, but no month 13
LineBadMonth == <<"2","0","2","3","-","1","3","-","2","9"," ","1","0",":","1","5",":","3","0"," ","o","o","p","s">>
\* "2023-05-29T10:00:00.000+00:00 INFO 1 --- [m] [c] a.B : AUTH_EVENT|2023-05-29T10:00:00Z|bob|1.2.3.4|LOGIN|R|A"
LineSpringAuthEvent == <<"2","0","2","3","-","0","5","-","2","9","T","1","0",":","0","0",":","0","0",".","0","0","0","+","0","0",":","0","0"," ","I","N","F","O"," ","1"," ","-","-","-"," ","[","m","]"," ","[","c","]"," ","a",".","B"," ",":"," ","A","U","T","H","_","E","V","E","N","T","|","2","0","2","3","-","0","5","-","2","9","T","1","0",":","0","0",":","0","0","Z","|","b","o","b","|","1",".","2",".","3",".","4","|","L","O","G","I","N","|","R","|","A">>
InputLines ==
    LET \* "TRANSACTION|TX1|PAY|2023-05-29T10:00:00+00:00|OK|response=R|ofsResponse=A"
        LinePipeTransaction == <<"T","R","A","N","S","A","C","T","I","O","N","|","T","X","1","|","P","A","Y","|","2","0","2","3","-","0","5","-","2","9","T","1","0",":","0","0",":","0","0","+","0","0",":","0","0","|","O","K","|","r","e","s","p","o","n","s","e","=","R","|","o","f","s","R","e","s","p","o","n","s","e","=","A">>
        \* "at "
        LineBareAt == <<"a","t"," ">>
        \* "oops error"
        LineBasic == <<"o","o","p","s"," ","e","r","r","o","r">>
    IN  {LineTomcat, LineSpringTransaction, LinePipeTransaction, LinePipeAuthEvent,
         LineIndentedAt, LineCausedBy, LineBareAt, LineBlank, LineUnknown, LineBasic,
         LineBadMonth, LineSpringAuthEvent}

(***************************************************************************)
(* State of one call of parseLogContent.                                   *)
(***************************************************************************)
VARIABLES
    lines,              \* content.split(/\r?\n/)
    facts,              \* facts[i] is what the callback computes from lines[i]
    index,              \* number of lines lines.forEach has handled
    currentEntry,       \* the entry being accumulated, or Null
    currentStackTrace,  \* its buffered stack-trace lines
    entries,            \* the output sequence
    errors,             \* the line numbers of the warnings
    clock,              \* the last reading of the clock
    pc,                 \* "lines" while forEach runs, "done" after the return
    \* calls of filterLogs
    fRecords,           \* the record sequence
    fP1, fP2,           \* two predicates over disjoint fields
    fMerged,            \* filterLogs(fRecords, {...fP1, ...fP2})
    fFirst,             \* filterLogs(fRecords, fP1)
    fSecond,            \* filterLogs(fFirst, fP2)
    fpc,                \* the calls made so far
    \* a call of calculateStats
    sLogs,              \* the record sequence
    sIndex,             \* number of records logs.forEach has handled
    stats,              \* the object `stats`
    spc,                \* "forEach" while the loop runs, then "returned" or "threw"
    \* calls of normalizeTimestamp
    nTimestamp,         \* the argument
    nDate,              \* the local `date`, Null before it is assigned
    nCalls,             \* the calls that returned: argument, path taken, result
    nClock,             \* the last reading of the clock
    npc,                \* the statement the call is at, "returned" after it
    \* App and its RemoteLogConfiguration form
    aLogs,              \* the state `logs` of App
    aFilteredLogs,      \* the state `filteredLogs` of App
    rError,             \* the state `error` of the form, Null for null
    rLoading,           \* the state `loading` of the form
    rResponse,          \* the Response fetch resolved with, Null before
    rThrown,            \* the message of the error the submission threw, Null for none
    rCall,              \* what the submission under way has done so far
    rSubmits,           \* number of submissions so far
    rpc,                \* the statement handleSubmit is at, "form" between submissions
    \* the recognition of one record-starting line
    gLine,              \* the line
    gParsed,            \* the local `parsed` after the loop over the formats
    gEntry,             \* the entry that becomes current
    gpc,                \* the statement the callback is at
    \* App and its LogUploader
    aFilter,            \* the state `filter` of App
    uParses,            \* the ingestions started, in the order they were started
    uFinished,          \* the ingestions that called onLogsLoaded, in the order they did
    \* the LogViewer
    vCount,             \* logs.length for the prop `logs`
    vPage,              \* the state `page`
    vRowsPerPage        \* the state `rowsPerPage`

parserVars == <<lines, facts, index, currentEntry, currentStackTrace, entries, errors, clock, pc>>
filterVars == <<fRecords, fP1, fP2, fMerged, fFirst, fSecond, fpc>>
statsVars == <<sLogs, sIndex, stats, spc>>
normVars == <<nTimestamp, nDate, nCalls, nClock, npc>>
remoteVars == <<aLogs, aFilteredLogs, rError, rLoading, rResponse, rThrown, rCall, rSubmits, rpc>>
formatVars == <<gLine, gParsed, gEntry, gpc>>
appVars == <<aFilter, uParses, uFinished>>
viewVars == <<vCount, vPage, vRowsPerPage>>
vars == <<parserVars, filterVars, statsVars, normVars, remoteVars, formatVars, appVars, viewVars>>

\* the contents of at most MaxLines lines (split never returns an empty
\* array); no call of filterLogs is under way
Init ==
    LET \* the facts of every line of InputLines
        LineFacts ==
            LET \* what the callback computes from line l, whose cascade returned `parsed`:
                \* the two tests, whether a fallback runs and whether it reads the clock,
                \* and the entry that becomes current at each clock reading
                FactsOf(l, parsed) ==
                    [blank |-> IsBlank(l),
                     stack |-> LooksLikeStackTrace(l),
                     notParsed |-> parsed = Null,
                     readsClock |-> parsed = Null /\ BasicTimestampProbe(l) = Undefined,
                     start |-> [t \in 0..MaxClock |-> Fallbacks(l, t, parsed)]]
            IN  [l \in InputLines |-> FactsOf(l, FormatCascade(l))]
    IN  /\ lines \in UNION {[1..n -> InputLines] : n \in 1..MaxLines}
        /\ facts = [i \in DOMAIN lines |-> LineFacts[lines[i]]]
        /\ index = 0
        /\ currentEntry = Null
        /\ currentStackTrace = <<>>
        /\ entries = <<>>
        /\ errors = <<>>
        /\ clock = 0
        /\ pc = "lines"
        /\ fRecords = <<>> /\ fP1 = EmptyFilter /\ fP2 = EmptyFilter
        /\ fMerged = <<>> /\ fFirst = <<>> /\ fSecond = <<>> /\ fpc = "idle"
        /\ sLogs = <<>> /\ sIndex = 0 /\ stats = InitialStats(<<>>) /\ spc = "idle"
        /\ nTimestamp = Undefined /\ nDate = Null /\ nCalls = <<>> /\ nClock = 0 /\ npc = "idle"
        /\ aLogs = <<>> /\ aFilteredLogs = <<>> /\ rError = Null /\ rLoading = FALSE
        /\ rResponse = Null /\ rThrown = Null /\ rCall = Null /\ rSubmits = 0 /\ rpc = "idle"
        /\ gLine = <<>> /\ gParsed = Null /\ gEntry = Null /\ gpc = "idle"
        /\ aFilter = EmptyFilter /\ uParses = <<>> /\ uFinished = <<>>
        /\ vCount = 0 /\ vPage = 0 /\ vRowsPerPage = 0

\* the line forEach hands to its callback next, and what is computed from it
line == lines[index + 1]
fact == facts[index + 1]

\* a blank line that ends the current entry: `finalizeCurrentEntry()` before
\* the return
BlankLine_Finalizes ==
    /\ pc = "lines" /\ index < Len(lines)
    /\ fact.blank
    /\ entries' = finalizeCurrentEntry(currentEntry, currentStackTrace, entries, clock, clock)
    /\ currentEntry' = Null
    /\ currentStackTrace' = <<>>
    /\ index' = index + 1
    /\ UNCHANGED <<lines, facts, errors, clock, pc, filterVars, statsVars, normVars, remoteVars, formatVars, appVars, viewVars>>
\* `if (!line.trim()) return;`
BlankLine ==
    /\ pc = "lines" /\ index < Len(lines)
    /\ fact.blank
    /\ index' = index + 1
    /\ UNCHANGED <<lines, facts, currentEntry, currentStackTrace, entries, errors, clock, pc, filterVars, statsVars, normVars, remoteVars, formatVars, appVars, viewVars>>

\* a stack-trace line buffered whether or not an entry is current
StackTraceLine_NoCurrent ==
    /\ pc = "lines" /\ index < Len(lines)
    /\ ~fact.blank
    /\ fact.stack
    /\ currentStackTrace' = Append(currentStackTrace, line)
    /\ index' = index + 1
    /\ UNCHANGED <<lines, facts, currentEntry, entries, errors, clock, pc, filterVars, statsVars, normVars, remoteVars, formatVars, appVars, viewVars>>
\* a stack-trace line while an entry is current: `currentStackTrace.push(line)`
StackTraceLine ==
    /\ pc = "lines" /\ index < Len(lines)
    /\ ~fact.blank
    /\ fact.stack /\ currentEntry # Null
    /\ currentStackTrace' = Append(currentStackTrace, line)
    /\ index' = index + 1
    /\ UNCHANGED <<lines, facts, currentEntry, entries, errors, clock, pc, filterVars, statsVars, normVars, remoteVars, formatVars, appVars, viewVars>>

\* a record line whose finalizeCurrentEntry leaves the buffer of stack-trace
\* lines as it is (no `currentStackTrace = []`)
RecordLine_KeepsBuffer ==
    /\ pc = "lines" /\ index < Len(lines)
    /\ ~fact.blank
    /\ ~(fact.stack /\ currentEntry # Null)
    /\ \E t1 \in PushReadings(currentEntry, clock) : \E t2 \in CatchReadings(currentEntry, t1) :
       \E t3 \in (IF fact.readsClock THEN t2..MaxClock ELSE {t2}) :
          /\ entries' = finalizeCurrentEntry(currentEntry, currentStackTrace, entries, t1, t2)
          /\ currentEntry' = fact.start[t3]
          /\ clock' = t3
    /\ errors' = IF fact.notParsed THEN Append(errors, index + 1) ELSE errors
    /\ index' = index + 1
    /\ UNCHANGED <<lines, facts, currentStackTrace, pc, filterVars, statsVars, normVars, remoteVars, formatVars, appVars, viewVars>>
\* any other line: finalize the current entry, then start a new one
RecordLine ==
    /\ pc = "lines" /\ index < Len(lines)
    /\ ~fact.blank
    /\ ~(fact.stack /\ currentEntry # Null)
    /\ \E t1 \in PushReadings(currentEntry, clock) : \E t2 \in CatchReadings(currentEntry, t1) :
       \E t3 \in (IF fact.readsClock THEN t2..MaxClock ELSE {t2}) :
          /\ entries' = finalizeCurrentEntry(currentEntry, currentStackTrace, entries, t1, t2)
          /\ currentEntry' = fact.start[t3]
          /\ clock' = t3
    /\ currentStackTrace' = <<>>
    /\ errors' = IF fact.notParsed THEN Append(errors, index + 1) ELSE errors
    /\ index' = index + 1
    /\ UNCHANGED <<lines, facts, pc, filterVars, statsVars, normVars, remoteVars, formatVars, appVars, viewVars>>

\* the return without the last `finalizeCurrentEntry()`
EndOfInput_NoFinalize ==
    /\ pc = "lines" /\ index = Len(lines)
    /\ currentEntry' = Null
    /\ currentStackTrace' = <<>>
    /\ pc' = "done"
    /\ UNCHANGED <<lines, facts, index, entries, errors, clock, filterVars, statsVars, normVars, remoteVars, formatVars, appVars, viewVars>>
\* after the last line: `finalizeCurrentEntry(); return entries;`
EndOfInput ==
    /\ pc = "lines" /\ index = Len(lines)
    /\ \E t1 \in PushReadings(currentEntry, clock) : \E t2 \in CatchReadings(currentEntry, t1) :
          /\ entries' = finalizeCurrentEntry(currentEntry, currentStackTrace, entries, t1, t2)
          /\ clock' = t2
    /\ currentEntry' = Null
    /\ currentStackTrace' = <<>>
    /\ pc' = "done"
    /\ UNCHANGED <<lines, facts, index, errors, filterVars, statsVars, normVars, remoteVars, formatVars, appVars, viewVars>>

Next == BlankLine \/ StackTraceLine \/ RecordLine \/ EndOfInput

Spec == Init /\ [][Next]_vars
\* the progress of a call: forEach goes on to the next line, and to the
\* return after the last one
Advance ==
    /\ pc = "lines"
    /\ IF index < Len(lines) THEN index' = index + 1 /\ pc' = pc
                              ELSE index' = index /\ pc' = "done"
\* forEach runs its callback for one line after the other and the return
\* follows: a call that can go on does so
SpecTermination == Init /\ [][Next]_vars /\ WF_<<index, pc>>(Advance)

(***************************************************************************)
(* Calls of filterLogs on bounded inputs.                                  *)
(***************************************************************************)
\* a LogEntry object; eventType and additionalInfo are optional properties
LogEntry(timestamp, level, message, source, stackTrace, additionalInfo) ==
    [timestamp |-> timestamp, level |-> level, message |-> message, source |-> source,
     stackTrace |-> stackTrace, additionalInfo |-> additionalInfo]
WithEventType(log, eventType) ==
    [k \in DOMAIN log \cup {"eventType"} |-> IF k = "eventType" THEN eventType ELSE log[k]]
\* the fields a predicate constrains
ActiveFields(filter) == {k \in DOMAIN filter : filter[k] # Undefined}
\* {...p1, ...p2} for predicates over disjoint fields
MergeFilters(p1, p2) == [k \in DOMAIN p1 |-> IF p2[k] # Undefined THEN p2[k] ELSE p1[k]]

InitFilter ==
    LET \* the predicates: no constraint, or one (which may be the empty text)
        Predicates ==
            LET \* the single constraints the predicates are made of
                FilterAtoms ==
                    { <<"level", <<"e","r","r","o","r">>>>, <<"level", <<"I","N","F","O">>>>, <<"searchTerm", <<"T","i","m","e","O","u","t">>>>, <<"searchTerm", <<"x">>>>,
                      <<"source", <<"a",".">>>>, <<"uniqueId", <<"T","X","1">>>>, <<"accountNo", <<"E","R","R","O","R">>>>, <<"cardNo", <<"W","A","R","N">>>>,
                      <<"username", <<"b","o","b">>>>, <<"status", <<"o","k">>>>, <<"status", <<"W","A","R","N">>>>, <<"eventType", s_TRANSACTION>>, <<"eventType", <<>>>>,
                      <<"startDate", <<"2","0","2","3","-","0","5","-","2","9","T","0","0",":","0","0",":","0","0",".","0","0","0","Z">>>>, <<"endDate", <<"2","0","2","3","-","0","5","-","2","9","T","2","3",":","5","9",":","5","9",".","9","9","9","Z">>>> }
            IN  {EmptyFilter} \cup {[EmptyFilter EXCEPT ![a[1]] = a[2]] : a \in FilterAtoms}
        \* the records filterLogs is called on: two records parseLogContent returns
        \* and four records that vary what the parser's records do not
        RecordPool ==
            { FinalizedEntry(StartEntry(l[1], 0), l[2], 0, 0) :
                l \in {<<LineSpringTransaction, <<>>>>, <<LineUnknown, <<LineIndentedAt>>>>} }
            \cup
            { \* an ERROR without source whose message holds the search term
              LogEntry(<<"2","0","2","3","-","0","5","-","2","9","T","1","0",":","1","5",":","3","0",".","1","2","3","Z">>, <<"E","R","R","O","R">>, <<"R","e","q","u","e","s","t"," ","T","i","m","e","o","u","t">>, Undefined, <<"a","t"," ","x">>, EmptyInfo),
              \* a lower-case level, a source, the term only inside an array value
              WithEventType(LogEntry(<<"2","0","2","3","-","0","5","-","3","0","T","0","0",":","0","0",":","0","0",".","0","0","0","Z">>, <<"e","r","r","o","r">>, <<"o","k">>, <<"d","b",".","P","o","o","l">>, Undefined,
                                     Put(EmptyInfo, "parts", ArrVal(<<<<"t","i","m","e","o","u","t">>>>))), s_TRANSACTION),
              \* the term in the source only, no additionalInfo object
              LogEntry(<<"2","0","2","3","-","0","5","-","2","8","T","2","3",":","5","9",":","5","9",".","9","9","9","Z">>, <<"I","N","F","O">>, <<>>, <<"a",".","T","i","m","e","O","u","t">>, Undefined, UndefinedInfo),
              \* the term in a string value of additionalInfo and in the stack trace
              LogEntry(<<"n","o","t"," ","a"," ","d","a","t","e">>, <<"W","A","R","N">>, <<"T","X","1"," ","b","o","b">>, Undefined, <<"a","t"," ","t","i","m","e","o","u","t">>, Put(EmptyInfo, "status", StrVal(<<"T","I","M","E","O","U","T">>))) }
    IN  /\ lines = <<>> /\ facts = <<>> /\ index = 0 /\ currentEntry = Null /\ currentStackTrace = <<>>
        /\ entries = <<>> /\ errors = <<>> /\ clock = 0 /\ pc = "idle"
        /\ fRecords \in UNION {[1..n -> RecordPool] : n \in 0..MaxLogs}
        /\ fP1 \in Predicates
        /\ fP2 \in {p \in Predicates : ActiveFields(p) \cap ActiveFields(fP1) = {}}
        /\ fMerged = <<>> /\ fFirst = <<>> /\ fSecond = <<>>
        /\ fpc = "start"
        /\ sLogs = <<>> /\ sIndex = 0 /\ stats = InitialStats(<<>>) /\ spc = "idle"
        /\ nTimestamp = Undefined /\ nDate = Null /\ nCalls = <<>> /\ nClock = 0 /\ npc = "idle"
        /\ aLogs = <<>> /\ aFilteredLogs = <<>> /\ rError = Null /\ rLoading = FALSE
        /\ rResponse = Null /\ rThrown = Null /\ rCall = Null /\ rSubmits = 0 /\ rpc = "idle"
        /\ gLine = <<>> /\ gParsed = Null /\ gEntry = Null /\ gpc = "idle"
        /\ aFilter = EmptyFilter /\ uParses = <<>> /\ uFinished = <<>>
        /\ vCount = 0 /\ vPage = 0 /\ vRowsPerPage = 0

\* filterLogs(records, {...P1, ...P2})
FilterMerged ==
    /\ fpc = "start"
    /\ fMerged' = filterLogs(fRecords, MergeFilters(fP1, fP2))
    /\ fpc' = "merged"
    /\ UNCHANGED <<parserVars, statsVars, fRecords, fP1, fP2, fFirst, fSecond, normVars, remoteVars, formatVars, appVars, viewVars>>
\* filterLogs(records, P1)
FilterFirst ==
    /\ fpc = "merged"
    /\ fFirst' = filterLogs(fRecords, fP1)
    /\ fpc' = "first"
    /\ UNCHANGED <<parserVars, statsVars, fRecords, fP1, fP2, fMerged, fSecond, normVars, remoteVars, formatVars, appVars, viewVars>>
\* filterLogs(filterLogs(records, P1), P2)
FilterSecond ==
    /\ fpc = "first"
    /\ fSecond' = filterLogs(fFirst, fP2)
    /\ fpc' = "second"
    /\ UNCHANGED <<parserVars, statsVars, fRecords, fP1, fP2, fMerged, fFirst, normVars, remoteVars, formatVars, appVars, viewVars>>

NextFilter == FilterMerged \/ FilterFirst \/ FilterSecond

SpecFilter == InitFilter /\ [][NextFilter]_vars

(***************************************************************************)
(* Calls of calculateStats on bounded inputs.                              *)
(***************************************************************************)

\* a call of calculateStats on at most MaxStatsLogs records of the pool
InitStats ==
    LET \* the records calculateStats is called on: a record parseLogContent
        \* returns and five records that vary level, source, date and keys
        StatsPool ==
            { FinalizedEntry(StartEntry(LineSpringTransaction, 0), <<>>, 0, 0),
              LogEntry(<<"2","0","2","3","-","0","5","-","2","9","T","1","0",":","1","5",":","3","0",".","1","2","3","Z">>, s_ERROR, <<"m">>, <<"a",".","B">>, Undefined,
                       Put(Put(EmptyInfo, "accountNo", StrVal(<<"A","1">>)), "status", StrVal(<<"O","K">>))),
              WithEventType(LogEntry(<<"2","0","2","3","-","0","5","-","3","0","T","0","0",":","0","0",":","0","0",".","0","0","0","Z">>, <<"W","A","R","N">>, <<"m">>, Undefined, Undefined,
                                     Put(Put(EmptyInfo, "accountNo", StrVal(<<"A","1">>)), "uniqueId", StrVal(<<"T","X","1">>))), s_TRANSACTION),
              \* a lower-case level and a source that names a member of Object.prototype
              LogEntry(<<"2","0","2","3","-","0","5","-","2","9","T","1","0",":","5","9",":","5","9",".","9","9","9","Z">>, <<"w","a","r","n","i","n","g">>, <<"m">>, <<"c","o","n","s","t","r","u","c","t","o","r">>, Undefined,
                       Put(EmptyInfo, "uniqueId", StrVal(<<"T","X","1">>))),
              \* a timestamp that is no date
              LogEntry(<<"n","o","t"," ","a"," ","d","a","t","e">>, <<"I","N","F","O">>, <<"m">>, <<"a",".","B">>, Undefined, UndefinedInfo),
              \* a local time whose UTC date is the next day
              LogEntry(<<"2","0","2","3","-","0","5","-","2","9","T","2","3",":","3","0",":","0","0","-","0","1",":","0","0">>, <<"D","E","B","U","G">>, <<"m">>, Undefined, Undefined,
                       Put(Put(EmptyInfo, "uniqueId", StrVal(<<"T","X","1">>)), "status", StrVal(<<"O","K">>))) }
    IN  /\ lines = <<>> /\ facts = <<>> /\ index = 0 /\ currentEntry = Null /\ currentStackTrace = <<>>
        /\ entries = <<>> /\ errors = <<>> /\ clock = 0 /\ pc = "idle"
        /\ fRecords = <<>> /\ fP1 = EmptyFilter /\ fP2 = EmptyFilter
        /\ fMerged = <<>> /\ fFirst = <<>> /\ fSecond = <<>> /\ fpc = "idle"
        /\ sLogs \in UNION {[1..n -> StatsPool] : n \in 0..MaxStatsLogs}
        /\ sIndex = 0
        /\ stats = InitialStats(sLogs)
        /\ spc = "forEach"
        /\ nTimestamp = Undefined /\ nDate = Null /\ nCalls = <<>> /\ nClock = 0 /\ npc = "idle"
        /\ aLogs = <<>> /\ aFilteredLogs = <<>> /\ rError = Null /\ rLoading = FALSE
        /\ rResponse = Null /\ rThrown = Null /\ rCall = Null /\ rSubmits = 0 /\ rpc = "idle"
        /\ gLine = <<>> /\ gParsed = Null /\ gEntry = Null /\ gpc = "idle"
        /\ aFilter = EmptyFilter /\ uParses = <<>> /\ uFinished = <<>>
        /\ vCount = 0 /\ vPage = 0 /\ vRowsPerPage = 0

\* the forEach callback on a log whose timestamp is a valid date
StatsRecord ==
    LET \* the callback for a log whose timestamp is a valid date
        CountRecord(st, log) ==
            LET \* if (!dist[date]) dist[date] = {}; dist[date][key] = (dist[date][key] || 0) + 1
                \* for a date YYYY-MM-DD
                IncrementIn(dist, date, key) ==
                    [d \in DOMAIN dist \cup {date} |->
                        IF d = date THEN Increment(IF date \in DOMAIN dist THEN dist[date] ELSE EmptyInfo, key)
                        ELSE dist[d]]
                \* new Date(log.timestamp).getHours() for the date whose toISOString() is
                \* iso: the hour of the day in the local zone
                getHours(iso) ==
                    ((Num(SubSeq(iso, 12, 13)) * 60 + Num(SubSeq(iso, 15, 16)) + LocalOffsetMinutes + 1440)
                        \div 60) % 24
                \* the rest of the callback, for a log whose date has the text iso: the
                \* buckets by hour, accountNo, uniqueId (each also by date), eventType, status
                CountBuckets(st0, iso, accountNo, uniqueId, status) ==
                    [st0 EXCEPT
                        !.timeDistribution =
                            Increment(@, SubSeq(iso, 1, 10) \o <<"T">> \o Pad(getHours(iso), 2)),
                        !.accountNoDistribution = IF Truthy(accountNo) THEN Increment(@, accountNo) ELSE @,
                        !.dateAccountNoDistribution =
                            IF Truthy(accountNo) THEN IncrementIn(@, SubSeq(iso, 1, 10), accountNo) ELSE @,
                        !.uniqueIdDistribution = IF Truthy(uniqueId) THEN Increment(@, uniqueId) ELSE @,
                        !.dateUniqueIdDistribution =
                            IF Truthy(uniqueId) THEN IncrementIn(@, SubSeq(iso, 1, 10), uniqueId) ELSE @,
                        !.eventTypeDistribution =
                            IF Truthy(eventTypeOf(log)) THEN Increment(@, eventTypeOf(log)) ELSE @,
                        !.statusDistribution = IF Truthy(status) THEN Increment(@, status) ELSE @]
            IN  CountBuckets(CountLevelAndSource(st, log), toISOString(DateParse(log.timestamp)),
                             InfoStr(log.additionalInfo, "accountNo"), InfoStr(log.additionalInfo, "uniqueId"),
                             InfoStr(log.additionalInfo, "status"))
    IN  /\ spc = "forEach" /\ sIndex < Len(sLogs)
        /\ DateParse(sLogs[sIndex + 1].timestamp).valid
        /\ stats' = CountRecord(stats, sLogs[sIndex + 1])
        /\ sIndex' = sIndex + 1
        /\ UNCHANGED <<parserVars, filterVars, sLogs, spc, normVars, remoteVars, formatVars, appVars, viewVars>>
\* the forEach callback on a log whose timestamp is an Invalid Date:
\* toISOString() throws a RangeError, which calculateStats does not catch
StatsThrows ==
    /\ spc = "forEach" /\ sIndex < Len(sLogs)
    /\ ~DateParse(sLogs[sIndex + 1].timestamp).valid
    /\ stats' = CountLevelAndSource(stats, sLogs[sIndex + 1])
    /\ spc' = "threw"
    /\ UNCHANGED <<parserVars, filterVars, sLogs, sIndex, normVars, remoteVars, formatVars, appVars, viewVars>>
\* `return stats;`
StatsReturn ==
    /\ spc = "forEach" /\ sIndex = Len(sLogs)
    /\ spc' = "returned"
    /\ UNCHANGED <<parserVars, filterVars, sLogs, sIndex, stats, normVars, remoteVars, formatVars, appVars, viewVars>>

NextStats == StatsRecord \/ StatsThrows \/ StatsReturn

SpecStats == InitStats /\ [][NextStats]_vars

(***************************************************************************)
(* Calls of normalizeTimestamp (LogParser.ts and LogUtils.ts).             *)
(***************************************************************************)
MaxCalls == 2

\* a first call of normalizeTimestamp, which has entered its try block
InitNormalize ==
    LET \* the arguments of the first call: a date, "T" or a space, a time, a
        \* fraction after a period or a comma, and a zone designator; two texts of
        \* another shape
        TimestampTexts ==
            LET Dates == {<<"2","0","2","3","-","0","5","-","2","9">>, <<"2","0","2","3","-","1","3","-","2","9">>, <<"2","0","2","4","-","1","2","-","3","1">>, <<"2","0","2","4","-","0","3","-","0","1">>}
                Times == {<<"1","0",":","1","5",":","3","0">>, <<"2","3",":","3","0",":","0","0">>, <<"0","0",":","1","0",":","0","0">>, <<"2","5",":","0","0",":","0","0">>}
                Fractions == {<<>>, <<".","1","2","3">>, <<",","1","2","3">>}
                Zones == {<<>>, <<"Z">>, <<"-","0","1",":","0","0">>, <<"+","0","1",":","0","0">>}
            IN  {d \o <<"T">> \o t \o f \o z : d \in Dates, t \in Times, f \in Fractions, z \in Zones}
                \cup {d \o <<" ">> \o t \o f : d \in Dates, t \in Times, f \in Fractions}
                \cup {<<>>, <<"n","o","t"," ","a"," ","d","a","t","e">>}
    IN  /\ lines = <<>> /\ facts = <<>> /\ index = 0 /\ currentEntry = Null /\ currentStackTrace = <<>>
        /\ entries = <<>> /\ errors = <<>> /\ clock = 0 /\ pc = "idle"
        /\ fRecords = <<>> /\ fP1 = EmptyFilter /\ fP2 = EmptyFilter
        /\ fMerged = <<>> /\ fFirst = <<>> /\ fSecond = <<>> /\ fpc = "idle"
        /\ sLogs = <<>> /\ sIndex = 0 /\ stats = InitialStats(<<>>) /\ spc = "idle"
        /\ nTimestamp \in TimestampTexts
        /\ nDate = Null
        /\ nCalls = <<>>
        /\ nClock = 0
        /\ npc = "try"
        /\ aLogs = <<>> /\ aFilteredLogs = <<>> /\ rError = Null /\ rLoading = FALSE
        /\ rResponse = Null /\ rThrown = Null /\ rCall = Null /\ rSubmits = 0 /\ rpc = "idle"
        /\ gLine = <<>> /\ gParsed = Null /\ gEntry = Null /\ gpc = "idle"
        /\ aFilter = EmptyFilter /\ uParses = <<>> /\ uFinished = <<>>
        /\ vCount = 0 /\ vPage = 0 /\ vRowsPerPage = 0

\* `date = new Date(timestamp.replace(',', '.'))` or `date = new Date(timestamp)`
NormalizeParse ==
    /\ npc = "try"
    /\ nDate' = DateParse(ReplaceFirstComma(nTimestamp))
    /\ npc' = "isNaN"
    /\ UNCHANGED <<parserVars, filterVars, statsVars, nTimestamp, nCalls, nClock, remoteVars, formatVars, appVars, viewVars>>
\* `if (isNaN(date.getTime())) throw new Error(...)`, leaving the try block
\* without catching the error
NormalizeThrow_Uncaught ==
    /\ npc = "isNaN" /\ ~nDate.valid
    /\ npc' = "raised"
    /\ UNCHANGED <<parserVars, filterVars, statsVars, nTimestamp, nDate, nCalls, nClock, remoteVars, formatVars, appVars, viewVars>>
\* `if (isNaN(date.getTime())) throw new Error(...)`, inside the try block
NormalizeThrow ==
    /\ npc = "isNaN" /\ ~nDate.valid
    /\ npc' = "catch"
    /\ UNCHANGED <<parserVars, filterVars, statsVars, nTimestamp, nDate, nCalls, nClock, remoteVars, formatVars, appVars, viewVars>>
\* `return date.toISOString();`
NormalizeReturn ==
    /\ npc = "isNaN" /\ nDate.valid
    /\ nCalls' = Append(nCalls, [timestamp |-> nTimestamp, parsed |-> TRUE,
                                 returned |-> toISOString(nDate)])
    /\ npc' = "returned"
    /\ UNCHANGED <<parserVars, filterVars, statsVars, nTimestamp, nDate, nClock, remoteVars, formatVars, appVars, viewVars>>
\* the catch block: `return new Date().toISOString();`
NormalizeCatch ==
    /\ npc = "catch"
    /\ \E t \in nClock..MaxClock :
          /\ nClock' = t
          /\ nCalls' = Append(nCalls, [timestamp |-> nTimestamp, parsed |-> FALSE,
                                       returned |-> NowISOString(t)])
    /\ npc' = "returned"
    /\ UNCHANGED <<parserVars, filterVars, statsVars, nTimestamp, nDate, remoteVars, formatVars, appVars, viewVars>>
\* a further call, on the text the last call returned
NormalizeAgain ==
    /\ npc = "returned" /\ Len(nCalls) < MaxCalls
    /\ nTimestamp' = nCalls[Len(nCalls)].returned
    /\ nDate' = Null
    /\ npc' = "try"
    /\ UNCHANGED <<parserVars, filterVars, statsVars, nCalls, nClock, remoteVars, formatVars, appVars, viewVars>>

NextNormalize ==
    NormalizeParse \/ NormalizeThrow \/ NormalizeReturn \/ NormalizeCatch \/ NormalizeAgain

SpecNormalize == InitNormalize /\ [][NextNormalize]_vars

\* a call of parseLogContent, or calls of normalizeTimestamp on their own
NextTimestamps ==
    \/ BlankLine \/ StackTraceLine \/ RecordLine \/ EndOfInput
    \/ NormalizeParse \/ NormalizeThrow \/ NormalizeReturn \/ NormalizeCatch \/ NormalizeAgain

SpecTimestamps == (Init \/ InitNormalize) /\ [][NextTimestamps]_vars

(***************************************************************************)
(* RemoteLogConfiguration.handleSubmit, RemoteLogFetcher.fetchLogs and the *)
(* callback App hands to the form.  The form is shown throughout.         *)
(***************************************************************************)
MaxSubmits == 2
\* response.ok taken as true whatever the status
ResponseOk_Always(status) == TRUE
\* response.ok: the status is in the range 200-299
ResponseOk(status) == status \in 200..299
\* the error of a status that is not ok
HttpError(status) == [message |-> "HTTP error! status: ", status |-> status]

\* App after its first render, the form shown and not submitted yet
InitRemote ==
    /\ lines = <<>> /\ facts = <<>> /\ index = 0 /\ currentEntry = Null /\ currentStackTrace = <<>>
    /\ entries = <<>> /\ errors = <<>> /\ clock = 0 /\ pc = "idle"
    /\ fRecords = <<>> /\ fP1 = EmptyFilter /\ fP2 = EmptyFilter
    /\ fMerged = <<>> /\ fFirst = <<>> /\ fSecond = <<>> /\ fpc = "idle"
    /\ sLogs = <<>> /\ sIndex = 0 /\ stats = InitialStats(<<>>) /\ spc = "idle"
    /\ nTimestamp = Undefined /\ nDate = Null /\ nCalls = <<>> /\ nClock = 0 /\ npc = "idle"
    /\ aLogs = <<>> /\ aFilteredLogs = <<>>
    /\ rError = Null /\ rLoading = FALSE
    /\ rResponse = Null /\ rThrown = Null /\ rCall = Null
    /\ rSubmits = 0
    /\ rpc = "form"
    /\ gLine = <<>> /\ gParsed = Null /\ gEntry = Null /\ gpc = "idle"
    /\ aFilter = EmptyFilter /\ uParses = <<>> /\ uFinished = <<>>
    /\ vCount = 0 /\ vPage = 0 /\ vRowsPerPage = 0

\* handleSubmit up to `await fetch(...)`: `setError(null); setLoading(true);`
\* rCall keeps the logs App held at this point
RemoteSubmit ==
    /\ rpc = "form" /\ ~rLoading /\ rSubmits < MaxSubmits
    /\ rError' = Null
    /\ rLoading' = TRUE
    /\ rResponse' = Null
    /\ rThrown' = Null
    /\ rCall' = [logs |-> aLogs, filteredLogs |-> aFilteredLogs, parsed |-> 0, called |-> 0]
    /\ rSubmits' = rSubmits + 1
    /\ rpc' = "fetch"
    /\ UNCHANGED <<parserVars, filterVars, statsVars, normVars, aLogs, aFilteredLogs, formatVars, appVars, viewVars>>
\* fetch rejects (a network failure): the catch block of fetchLogs rethrows
RemoteFetchRejects ==
    /\ rpc = "fetch"
    /\ rThrown' = [message |-> "Failed to fetch"]
    /\ rpc' = "catch"
    /\ UNCHANGED <<parserVars, filterVars, statsVars, normVars, aLogs, aFilteredLogs, rError, rLoading, rResponse, rCall, rSubmits, formatVars, appVars, viewVars>>
\* fetch resolves with a response
RemoteFetchResolves ==
    LET \* the statuses and the one-line bodies of the responses
        Statuses == {200, 204, 404, 500}
        Bodies == {LineTomcat, LineUnknown, LineBlank}
    IN  /\ rpc = "fetch"
        /\ \E status \in Statuses : \E body \in Bodies :
              rResponse' = [status |-> status, body |-> body]
        /\ rpc' = "response"
        /\ UNCHANGED <<parserVars, filterVars, statsVars, normVars, aLogs, aFilteredLogs, rError, rLoading, rThrown, rCall, rSubmits, formatVars, appVars, viewVars>>
\* `if (!response.ok) throw new Error(...)`, rethrown by the catch block
RemoteNotOk ==
    /\ rpc = "response" /\ ~ResponseOk(rResponse.status)
    /\ rThrown' = HttpError(rResponse.status)
    /\ rpc' = "catch"
    /\ UNCHANGED <<parserVars, filterVars, statsVars, normVars, aLogs, aFilteredLogs, rError, rLoading, rResponse, rCall, rSubmits, formatVars, appVars, viewVars>>
\* `await response.text()` rejects (the connection fails while the body is read)
RemoteTextRejects ==
    /\ rpc = "response" /\ ResponseOk(rResponse.status)
    /\ rThrown' = [message |-> "Failed to fetch"]
    /\ rpc' = "catch"
    /\ UNCHANGED <<parserVars, filterVars, statsVars, normVars, aLogs, aFilteredLogs, rError, rLoading, rResponse, rCall, rSubmits, formatVars, appVars, viewVars>>
\* `content = await response.text(); return LogParser.parseLogContent(content);`
\* then, in handleSubmit, `onLogsFetched(logs)`, which is handleLogsLoaded:
\* `setLogs(entries); setFilteredLogs(entries);`
RemoteParsed ==
    LET \* LogParser.parseLogContent(content) for a content of one line
        ParseOneLine(content, now) ==
            IF IsBlank(content) THEN <<>>
            ELSE finalizeCurrentEntry(StartEntry(content, now), <<>>, <<>>, now, now)
    IN  /\ rpc = "response" /\ ResponseOk(rResponse.status)
        /\ \E now \in 0..MaxClock :
              /\ aLogs' = ParseOneLine(rResponse.body, now)
              /\ aFilteredLogs' = aLogs'
        /\ rCall' = [rCall EXCEPT !.parsed = @ + 1, !.called = @ + 1]
        /\ rpc' = "finally"
        /\ UNCHANGED <<parserVars, filterVars, statsVars, normVars, rError, rLoading, rResponse, rThrown, rSubmits, formatVars, appVars, viewVars>>
\* the catch block of handleSubmit: `setError(err.message)`
RemoteCatch ==
    /\ rpc = "catch"
    /\ rError' = rThrown
    /\ rpc' = "finally"
    /\ UNCHANGED <<parserVars, filterVars, statsVars, normVars, aLogs, aFilteredLogs, rLoading, rResponse, rThrown, rCall, rSubmits, formatVars, appVars, viewVars>>
\* the finally block: `setLoading(false)`
RemoteFinally ==
    /\ rpc = "finally"
    /\ rLoading' = FALSE
    /\ rpc' = "form"
    /\ UNCHANGED <<parserVars, filterVars, statsVars, normVars, aLogs, aFilteredLogs, rError, rResponse, rThrown, rCall, rSubmits, formatVars, appVars, viewVars>>

NextRemote ==
    \/ RemoteSubmit \/ RemoteFetchRejects \/ RemoteFetchResolves \/ RemoteNotOk
    \/ RemoteTextRejects \/ RemoteParsed \/ RemoteCatch \/ RemoteFinally

SpecRemote == InitRemote /\ [][NextRemote]_vars

(***************************************************************************)
(* The callback of lines.forEach for one record-starting line: the loop    *)
(* over the formats, then the fallbacks.  The lines are a prefix followed  *)
(* by a pipe-separated payload.                                            *)
(***************************************************************************)
MaxTrailing == 2
\* what precedes the payload: nothing, "x: ", the Spring Boot prefix, an offset
\* timestamp before "x: ", a level keyword and a logger before the colon
LinePrefixes ==
    {<<>>,
     <<"x",":"," ">>,
     <<"2","0","2","3","-","0","5","-","2","9","T","1","0",":","0","0",":","0","0",".","0","0","0","+","0","0",":","0","0"," ","I","N","F","O"," ","1"," ","-","-","-"," ","[","m","]"," ","[","c","]"," ","a",".","B"," ",":"," ">>,
     <<"2","0","2","3","-","0","5","-","2","9","T","1","0",":","0","0",":","0","0",".","0","0","0","+","0","0",":","0","0"," ","x",":"," ">>,
     <<"7"," ","I","N","F","O"," ","[","m","]"," ","a",".","B"," ",":"," ">>}
\* "TRANSACTION|TX1|PAY|2023-05-29|OK" followed by at most MaxTrailing fields,
\* an AUTH_EVENT and an ERROR payload, and a payload of no known type
Payloads ==
    LET \* the fields that follow the status of a TRANSACTION payload
        TrailingFields ==
            {<<"r","e","s","p","o","n","s","e","=","R">>, <<"r","e","s","p","o","n","s","e","=","S">>,
             <<"o","f","s","R","e","s","p","o","n","s","e","=","A">>, <<"o","f","s","R","e","s","p","o","n","s","e","=","B">>,
             <<"1",".","2",".","3",".","4">>, <<"5",".","6",".","7",".","8">>, <<"f","r","e","e">>}
        RECURSIVE WithFields(_, _)
        WithFields(head, fields) ==
            IF Len(fields) = 0 THEN head
            ELSE WithFields(head \o <<"|">> \o fields[1], Tail(fields))
    IN  {WithFields(<<"T","R","A","N","S","A","C","T","I","O","N","|","T","X","1","|","P","A","Y","|","2","0","2","3","-","0","5","-","2","9","|","O","K">>, fields) :
            fields \in UNION {[1..n -> TrailingFields] : n \in 0..MaxTrailing}}
        \cup {<<"A","U","T","H","_","E","V","E","N","T","|","2","0","2","3","-","0","5","-","2","9","T","0","9",":","0","0",":","0","0","Z","|","b","o","b","|","1",".","2",".","3",".","4","|","L","O","G","I","N","|","R","|","A">>,
              <<"E","R","R","O","R","|","E","1","|","2","0","2","3","-","0","5","-","2","9","|","E","V","|","F","A","I","L","E","D","|","i","t"," ","d","i","d"," ","W","A","R","N"," ","u","s","|","R","|","A">>,
              <<"a","|","b","|","c">>}

\* the callback is about to handle a line that is not blank, no entry current
InitFormats ==
    /\ lines = <<>> /\ facts = <<>> /\ index = 0 /\ currentEntry = Null /\ currentStackTrace = <<>>
    /\ entries = <<>> /\ errors = <<>> /\ clock = 0 /\ pc = "idle"
    /\ fRecords = <<>> /\ fP1 = EmptyFilter /\ fP2 = EmptyFilter
    /\ fMerged = <<>> /\ fFirst = <<>> /\ fSecond = <<>> /\ fpc = "idle"
    /\ sLogs = <<>> /\ sIndex = 0 /\ stats = InitialStats(<<>>) /\ spc = "idle"
    /\ nTimestamp = Undefined /\ nDate = Null /\ nCalls = <<>> /\ nClock = 0 /\ npc = "idle"
    /\ aLogs = <<>> /\ aFilteredLogs = <<>> /\ rError = Null /\ rLoading = FALSE
    /\ rResponse = Null /\ rThrown = Null /\ rCall = Null /\ rSubmits = 0 /\ rpc = "idle"
    /\ \E prefix \in LinePrefixes : \E payload \in Payloads : gLine = prefix \o payload
    /\ gParsed = Null
    /\ gEntry = Null
    /\ gpc = "formats"
    /\ aFilter = EmptyFilter /\ uParses = <<>> /\ uFinished = <<>>
    /\ vCount = 0 /\ vPage = 0 /\ vRowsPerPage = 0

\* `for (const format of this.logFormats) {...}`
TryFormats ==
    /\ gpc = "formats"
    /\ gParsed' = FormatCascade(gLine)
    /\ gpc' = "parsed"
    /\ UNCHANGED <<parserVars, filterVars, statsVars, normVars, remoteVars, gLine, gEntry, appVars, viewVars>>
\* `if (!parsed) {...}` and `currentEntry = parsed`
UseParsed ==
    /\ gpc = "parsed"
    /\ \E now \in 0..MaxClock : gEntry' = Fallbacks(gLine, now, gParsed)
    /\ gpc' = "current"
    /\ UNCHANGED <<parserVars, filterVars, statsVars, normVars, remoteVars, gLine, gParsed, appVars, viewVars>>

NextFormats == TryFormats \/ UseParsed

SpecFormats == InitFormats /\ [][NextFormats]_vars

(***************************************************************************)
(* App with its LogUploader and LogFilter: file ingestions, which end in   *)
(* handleLogsLoaded, and filter changes.                                   *)
(***************************************************************************)
MaxUploads == 2

\* App after its first render, the LogUploader shown
InitApp ==
    /\ lines = <<>> /\ facts = <<>> /\ index = 0 /\ currentEntry = Null /\ currentStackTrace = <<>>
    /\ entries = <<>> /\ errors = <<>> /\ clock = 0 /\ pc = "idle"
    /\ fRecords = <<>> /\ fP1 = EmptyFilter /\ fP2 = EmptyFilter
    /\ fMerged = <<>> /\ fFirst = <<>> /\ fSecond = <<>> /\ fpc = "idle"
    /\ sLogs = <<>> /\ sIndex = 0 /\ stats = InitialStats(<<>>) /\ spc = "idle"
    /\ nTimestamp = Undefined /\ nDate = Null /\ nCalls = <<>> /\ nClock = 0 /\ npc = "idle"
    /\ aLogs = <<>> /\ aFilteredLogs = <<>> /\ rError = Null /\ rLoading = FALSE
    /\ rResponse = Null /\ rThrown = Null /\ rCall = Null /\ rSubmits = 0 /\ rpc = "idle"
    /\ gLine = <<>> /\ gParsed = Null /\ gEntry = Null /\ gpc = "idle"
    /\ aFilter = EmptyFilter
    /\ uParses = <<>>
    /\ uFinished = <<>>
    /\ vCount = 0 /\ vPage = 0 /\ vRowsPerPage = 0

\* handleFileUpload or handleDrop up to `await LogParser.parseFile(file)`;
\* the promise is pending, `parsed` is what it will resolve with
UploadStarts ==
    LET \* what parseFile resolves with for the files offered: no record, an ERROR
        \* record, an INFO record, both
        ParsedFiles ==
            LET e == LogEntry(<<"2","0","2","3","-","0","5","-","2","9","T","1","0",":","1","5",":","3","0",".","1","2","3","Z">>, <<"E","R","R","O","R">>, <<"B","o","o","m">>, Undefined, Undefined, EmptyInfo)
                i == LogEntry(<<"2","0","2","3","-","0","5","-","2","9","T","1","0",":","1","5",":","3","1",".","0","0","0","Z">>, <<"I","N","F","O">>, <<"o","k">>, Undefined, Undefined, EmptyInfo)
            IN  {<<>>, <<e>>, <<i>>, <<e, i>>}
    IN  /\ Len(uParses) < MaxUploads
        /\ \E parsed \in ParsedFiles :
              uParses' = Append(uParses, [entries |-> parsed, pending |-> TRUE])
        /\ UNCHANGED <<parserVars, filterVars, statsVars, normVars, remoteVars, formatVars, aFilter, uFinished, viewVars>>
\* the promise of ingestion k resolves: `onLogsLoaded(entries)`, which is
\* handleLogsLoaded: `setLogs(entries); setFilteredLogs(entries);`
UploadResolves ==
    \E k \in 1..Len(uParses) :
        /\ uParses[k].pending
        /\ aLogs' = uParses[k].entries
        /\ aFilteredLogs' = uParses[k].entries
        /\ uParses' = [uParses EXCEPT ![k].pending = FALSE]
        /\ uFinished' = Append(uFinished, k)
        /\ UNCHANGED <<parserVars, filterVars, statsVars, normVars, formatVars, aFilter,
                       rError, rLoading, rResponse, rThrown, rCall, rSubmits, rpc, viewVars>>
\* the promise of ingestion k rejects: the catch block sets the error of the
\* LogUploader, App is not called
UploadRejects ==
    \E k \in 1..Len(uParses) :
        /\ uParses[k].pending
        /\ uParses' = [uParses EXCEPT ![k].pending = FALSE]
        /\ UNCHANGED <<parserVars, filterVars, statsVars, normVars, remoteVars, formatVars, aFilter, uFinished, viewVars>>
\* handleFilterChange; the LogFilter form is rendered while logs.length > 0
FilterChanges ==
    LET \* the filters the LogFilter form hands to onFilterChange
        FormFilters ==
            {EmptyFilter, [EmptyFilter EXCEPT !.level = <<"E","R","R","O","R">>], [EmptyFilter EXCEPT !.level = <<"I","N","F","O">>]}
    IN  /\ Len(aLogs) > 0
        /\ \E newFilter \in FormFilters :
              /\ aFilter' = newFilter
              /\ aFilteredLogs' = filterLogs(aLogs, newFilter)
        /\ UNCHANGED <<parserVars, filterVars, statsVars, normVars, formatVars, aLogs,
                       rError, rLoading, rResponse, rThrown, rCall, rSubmits, rpc, uParses, uFinished, viewVars>>

NextApp == UploadStarts \/ UploadResolves \/ UploadRejects \/ FilterChanges

SpecApp == InitApp /\ [][NextApp]_vars

(***************************************************************************)
(* LogViewer: the pagination of the list App hands it.  The component     *)
(* reads the list through logs.length and logs.slice only, so the list is  *)
(* kept as its length.                                                     *)
(***************************************************************************)
MaxRows == 26

\* the LogViewer after its first render, with the records just loaded
InitViewer ==
    /\ lines = <<>> /\ facts = <<>> /\ index = 0 /\ currentEntry = Null /\ currentStackTrace = <<>>
    /\ entries = <<>> /\ errors = <<>> /\ clock = 0 /\ pc = "idle"
    /\ fRecords = <<>> /\ fP1 = EmptyFilter /\ fP2 = EmptyFilter
    /\ fMerged = <<>> /\ fFirst = <<>> /\ fSecond = <<>> /\ fpc = "idle"
    /\ sLogs = <<>> /\ sIndex = 0 /\ stats = InitialStats(<<>>) /\ spc = "idle"
    /\ nTimestamp = Undefined /\ nDate = Null /\ nCalls = <<>> /\ nClock = 0 /\ npc = "idle"
    /\ aLogs = <<>> /\ aFilteredLogs = <<>> /\ rError = Null /\ rLoading = FALSE
    /\ rResponse = Null /\ rThrown = Null /\ rCall = Null /\ rSubmits = 0 /\ rpc = "idle"
    /\ gLine = <<>> /\ gParsed = Null /\ gEntry = Null /\ gpc = "idle"
    /\ aFilter = EmptyFilter /\ uParses = <<>> /\ uFinished = <<>>
    /\ vCount \in 1..MaxRows
    /\ vPage = 0
    /\ vRowsPerPage = 10

\* handleChangePage: TablePagination calls it with page - 1 from its back
\* button (enabled while page > 0) and with page + 1 from its next button
\* (enabled while page is before the last page)
ChangePage ==
    LET \* the last page TablePagination offers: Math.ceil(count / rowsPerPage) - 1
        LastPage(count, rowsPerPage) == (count + rowsPerPage - 1) \div rowsPerPage - 1
    IN  /\ \E newPage \in {vPage - 1, vPage + 1} :
              /\ newPage >= 0
              /\ newPage > vPage => vPage < LastPage(vCount, vRowsPerPage)
              /\ vPage' = newPage
        /\ UNCHANGED <<parserVars, filterVars, statsVars, normVars, remoteVars, formatVars, appVars, vCount, vRowsPerPage>>
\* handleChangeRowsPerPage: `setRowsPerPage(...); setPage(0);`
ChangeRowsPerPage ==
    LET \* rowsPerPageOptions
        RowsPerPageOptions == {10, 25, 50, 100}
    IN  /\ \E rows \in RowsPerPageOptions : vRowsPerPage' = rows
        /\ vPage' = 0
        /\ UNCHANGED <<parserVars, filterVars, statsVars, normVars, remoteVars, formatVars, appVars, vCount>>
\* App renders the LogViewer with another list: a filter change or a load
\* replaced filteredLogs while logs is not empty (the component stays mounted)
LogsReplaced ==
    /\ \E count \in 0..MaxRows : vCount' = count
    /\ UNCHANGED <<parserVars, filterVars, statsVars, normVars, remoteVars, formatVars, appVars, vPage, vRowsPerPage>>

NextViewer == ChangePage \/ ChangeRowsPerPage \/ LogsReplaced

SpecViewer == InitViewer /\ [][NextViewer]_vars

(***************************************************************************)
(* Vocabulary of the properties of parseLogContent.                        *)
(***************************************************************************)
\* line i of the input is blank / has the shape of a stack-trace line
BlankAt(i) == facts[i].blank
StackShapedAt(i) == facts[i].stack
\* line i is the first non-blank line of the input
FirstNonBlankAt(i) == ~BlankAt(i) /\ \A j \in 1..(i - 1) : BlankAt(j)
\* the record-starting lines when no stack-trace-shaped line starts a record
UnshapedStarts == {i \in 1..Len(lines) : ~BlankAt(i) /\ ~StackShapedAt(i)}
\* the record-starting lines: the non-blank lines that are not a
\* continuation of a record before them
RecordStarts == {i \in 1..Len(lines) :
                    ~BlankAt(i) /\ (~StackShapedAt(i) \/ FirstNonBlankAt(i))}
\* the position, among the lines of S, of line i
RankIn(S, i) == Cardinality({j \in S : j <= i})
\* what a record says of the line it was made from (the timestamp may be a
\* clock reading and the stack trace comes from the following lines)
Content(entry) == [level |-> entry.level, message |-> entry.message,
                   source |-> entry.source, additionalInfo |-> entry.additionalInfo]
ContentOfLine(i) == Content(FinalizedEntry(facts[i].start[0], <<>>, 0, 0))
\* the output holds one record per line of S, in the order of the lines
RecordsFollow(S) ==
    /\ Len(entries) = Cardinality(S)
    /\ \A i \in S : Content(entries[RankIn(S, i)]) = ContentOfLine(i)
\* the elements of a set of numbers, ascending
RECURSIVE Ascending(_)
Ascending(S) == IF S = {} THEN <<>> ELSE <<MinOf(S)>> \o Ascending(S \ {MinOf(S)})

\* C1 as stated: the records follow the order of the record-starting lines and
\* no stack-trace-shaped line has a record of its own.
C1_Original == pc = "done" => RecordsFollow(UnshapedStarts)

\* C1 (amended): on return the output holds exactly one record per
\* record-starting line, in input order; a stack-trace-shaped line has a
\* record of its own only when it is the first non-blank line of the input.
C1_OrderPreserved == pc = "done" => RecordsFollow(RecordStarts)

\* two records with a stack-trace line between their lines
C1_Witness ==
    /\ pc = "done" /\ Len(entries) = 2
    /\ \E i \in RecordStarts : \E j \in RecordStarts :
          \E m \in (i + 1)..(j - 1) : StackShapedAt(m) /\ ~BlankAt(m)
    /\ Content(entries[1]) # Content(entries[2])

\* `at `, `Caused by: ` or whitespace then `at ` at the very beginning of the line
BeginsLikeContinuation(l) ==
    \/ LitAt(l, 1, <<"a","t"," ">>)
    \/ LitAt(l, 1, <<"C","a","u","s","e","d"," ","b","y",":"," ">>)
    \/ (IsSpace(At(l, 1)) /\ LitAt(l, SkipSpaces(l, 1), <<"a","t"," ">>))
\* the same once the line is trimmed, or whitespace, `at`, whitespace
ContinuationAfterTrim(l) ==
    \/ LitAt(trim(l), 1, <<"a","t"," ">>)
    \/ LitAt(trim(l), 1, <<"C","a","u","s","e","d"," ","b","y",":"," ">>)
    \/ (IsSpace(At(l, 1)) /\ LitAt(l, SkipSpaces(l, 1), <<"a","t">>)
        /\ IsSpace(At(l, SkipSpaces(l, 1) + 2)))
\* the continuation lines that follow line i, up to the next line that is
\* neither blank nor a continuation
Continuations(Shape(_), i) ==
    {j \in (i + 1)..Len(lines) :
        /\ ~BlankAt(j) /\ Shape(lines[j])
        /\ \A m \in (i + 1)..j : BlankAt(m) \/ Shape(lines[m])}
\* the lines that start a record when Shape tells the continuation lines
StartsFor(Shape(_)) ==
    {i \in 1..Len(lines) : ~BlankAt(i) /\ (~Shape(lines[i]) \/ FirstNonBlankAt(i))}
\* the record of every record-starting line that has continuation lines
\* carries exactly these lines, joined by newlines in input order
StackTracesAttached(Shape(_)) ==
    \A i \in StartsFor(Shape) :
        Continuations(Shape, i) # {} =>
            /\ RankIn(StartsFor(Shape), i) <= Len(entries)
            /\ entries[RankIn(StartsFor(Shape), i)].stackTrace
                 = join([k \in 1..Cardinality(Continuations(Shape, i)) |->
                            lines[Ascending(Continuations(Shape, i))[k]]], <<"\n">>)

Unrecognized(i) ==
    /\ facts[i].notParsed
    /\ BasicTimestampProbe(lines[i]) = Undefined /\ BasicLevelProbe(lines[i]) = Undefined
\* some record has level UNKNOWN and the whole line as its message
HasUnknownRecord(l) ==
    \E k \in 1..Len(entries) : entries[k].level = s_UNKNOWN /\ entries[k].message = l
\* the lines of a record's stack trace
StackLinesOf(entry) ==
    IF entry.stackTrace = Undefined THEN {}
    ELSE {split(entry.stackTrace, "\n")[k] : k \in 1..Len(split(entry.stackTrace, "\n"))}
\* line i is the origin of a record or a line of a record's stack trace
Accounted(i) ==
    \/ (i \in RecordStarts /\ RankIn(RecordStarts, i) <= Len(entries))
    \/ \E k \in 1..Len(entries) : lines[i] \in StackLinesOf(entries[k])

\* C3 as stated: every non-blank unrecognized line has a record of level
\* UNKNOWN whose message is the line.
C3_Original ==
    pc = "done" =>
        \A i \in 1..Len(lines) :
            ~BlankAt(i) /\ Unrecognized(i) => HasUnknownRecord(lines[i])

\* C3 (amended): every non-blank unrecognized line that is not attached to
\* the current record as a stack-trace line has a record of level UNKNOWN
\* whose message is the whole line, and no non-blank line is dropped: each
\* is the origin of a record or a line of a stack trace.
C3_NeverDropsALine ==
    pc = "done" =>
        /\ \A i \in RecordStarts :
              Unrecognized(i) =>
                  /\ entries[RankIn(RecordStarts, i)].level = s_UNKNOWN
                  /\ entries[RankIn(RecordStarts, i)].message = lines[i]
        /\ \A i \in 1..Len(lines) : ~BlankAt(i) => Accounted(i)

\* an unrecognized line with leading spaces became an UNKNOWN record, after
\* which another unrecognized line was attached as a stack-trace line
C3_Witness ==
    /\ pc = "done"
    /\ Len(lines) >= 2 /\ lines[1] = LineIndentedAt /\ lines[2] = LineCausedBy
    /\ Len(entries) = 1 /\ entries[1].level = s_UNKNOWN
    /\ entries[1].message = LineIndentedAt

\* the text is a canonical timestamp, YYYY-MM-DDTHH:MM:SS.mmmZ
IsCanonicalTimestamp(ts) ==
    /\ ts # Undefined /\ Len(ts) = 24
    /\ DateAt(ts, 1) /\ ts[11] = "T" /\ TimeAt(ts, 12)
    /\ ts[20] = "." /\ DigitsAt(ts, 21, 3) /\ ts[24] = "Z"
\* the record made from record-starting line i
EntryOf(i) == entries[RankIn(RecordStarts, i)]
\* the level the extractor (or the fallback) found on line i, if any
SuppliedLevel(i) == facts[i].start[0].level

\* C4: every record of the output has a non-null canonical timestamp and a
\* non-empty level without lower-case letters, which is the upper-cased level
\* the extractor supplied and UNKNOWN when it supplied none.
C4_TimestampAndLevel ==
    /\ \A k \in 1..Len(entries) :
          /\ IsCanonicalTimestamp(entries[k].timestamp)
          /\ entries[k].level # Undefined /\ entries[k].level # <<>>
          /\ \A c \in 1..Len(entries[k].level) : entries[k].level[c] \notin Lowers
    /\ pc = "done" =>
          \A i \in RecordStarts :
              /\ Truthy(SuppliedLevel(i)) =>
                    /\ Len(EntryOf(i).level) = Len(SuppliedLevel(i))
                    /\ \A c \in 1..Len(EntryOf(i).level) :
                          EntryOf(i).level[c] = UpperCh(SuppliedLevel(i)[c])
              /\ ~Truthy(SuppliedLevel(i)) => EntryOf(i).level = s_UNKNOWN

\* a record whose level was supplied in lower case next to one whose line
\* supplied no level and no timestamp
C4_Witness ==
    /\ pc = "done" /\ Len(entries) = 2
    /\ lines[1] = LineSpringTransaction /\ entries[1].level = <<"I","N","F","O">>
    /\ lines[2] = LineTomcat /\ entries[2].level = s_UNKNOWN
    /\ entries[2].timestamp = NowISOString(clock)

\* the fields of a line `DATE TIME,mmm LEVEL [thread] logger - message`
FieldsOfTokens(tokens) ==
    [timestamp |-> tokens[1] \o <<"T">> \o SubSeq(tokens[2], 1, 8) \o <<".">>
                   \o SubSeq(tokens[2], 10, 12) \o <<"Z">>,
     level |-> tokens[3],
     thread |-> SubSeq(tokens[4], 2, Len(tokens[4]) - 1),
     source |-> tokens[5],
     message |-> join(SubSeq(tokens, 7, Len(tokens)), <<" ">>)]
ContainerFields(l) == FieldsOfTokens(split(l, " "))
\* the record carries the fields
CarriesFields(entry, fields) ==
    /\ entry.level = fields.level
    /\ entry.source = fields.source
    /\ entry.message = fields.message
    /\ InfoStr(entry.additionalInfo, "thread") = fields.thread
    /\ entry.timestamp = fields.timestamp

\* C5: a line in the Tomcat container format yields a record with the line's
\* level, logger as source, message, thread and timestamp.
C5_TomcatFields ==
    pc = "done" =>
        \A i \in RecordStarts :
            TomcatMatch(lines[i]) # NoMatch =>
                CarriesFields(EntryOf(i), ContainerFields(lines[i]))

\* the pipe payload of a line that holds a TRANSACTION payload, else Undefined
PayloadFrom(l, ps) == IF ps = {} THEN Undefined ELSE From(l, MinOf(ps))
TransactionPayload(l) ==
    PayloadFrom(l, {p \in 1..Len(l) : LitAt(l, p, s_TRANSACTION \o <<"|">>)})
\* the text after `key` in the field of the payload that begins with it
FieldAt(fields, key, ks) ==
    IF ks = {} THEN Undefined ELSE From(fields[MinOf(ks)], Len(key) + 1)
FieldAfter(fields, key) ==
    FieldAt(fields, key, {k \in 1..Len(fields) : LitAt(fields[k], 1, key)})
\* additionalInfo holds the fields of a payload of seven or more fields
HoldsTransaction(info, payload, fields) ==
    payload # Undefined /\ Len(fields) >= 7 =>
        /\ InfoStr(info, "uniqueId") = fields[2]
        /\ InfoStr(info, "txType") = fields[3]
        /\ InfoStr(info, "status") = fields[5]
        /\ InfoStr(info, "response") = FieldAfter(fields, s_responseEq)
        /\ InfoStr(info, "ofsResponse") = FieldAfter(fields, s_ofsResponseEq)
\* the record of line i holds the fields of the line's payload
TransactionKept(info, payload) == HoldsTransaction(info, payload, split(payload, "|"))

\* C6: a TRANSACTION payload of seven or more fields, after a structured
\* prefix or as the whole line, yields a record whose additionalInfo holds
\* uniqueId, txType, status, response and ofsResponse.
C6_TransactionFields ==
    pc = "done" =>
        \A i \in RecordStarts :
            TransactionKept(EntryOf(i).additionalInfo, TransactionPayload(lines[i]))

\* the six discriminators
Discriminators == {s_TRANSACTION, s_AUTH_EVENT, s_ACCOUNT_QUERY, s_CARD_STATUS,
                   s_ERROR, s_OTHER_EVENT}
\* the discriminator the dialect found on the line, Undefined for a line
\* neither the Spring Boot nor the Dynamic Pipe dialect matches
DiscriminatorFound(spring, pipe) ==
    IF spring # NoMatch THEN SpringBootExtract(spring).eventType
    ELSE IF pipe # NoMatch THEN DynamicPipeExtract(pipe).eventType
    ELSE Undefined
DiscriminatorOf(l) == DiscriminatorFound(SpringBootMatch(l), DynamicPipeMatch(l))
\* a discriminator that is one of the six is the record's eventType
Carries(entry, discriminator) ==
    discriminator \in Discriminators => eventTypeOf(entry) = discriminator

\* C7: the record of a line the Spring Boot or the Dynamic Pipe dialect
\* matches and whose discriminator is one of the six carries the
\* discriminator as its eventType.
C7_EventTypeCarried ==
    pc = "done" =>
        \A i \in RecordStarts :
            Carries(EntryOf(i), DiscriminatorOf(lines[i]))

(***************************************************************************)
(* Vocabulary of the properties of filterLogs.                             *)
(***************************************************************************)
\* the predicate filterLogs was called with in FilterMerged
Merged == MergeFilters(fP1, fP2)
\* two characters that differ at most in case
SameLetter(c, d) ==
    c = d \/ \E k \in 1..26 : {c, d} = {LowerSeq[k], UpperSeq[k]}
\* equality and containment of texts, ignoring case
EqualIgnoringCase(a, b) ==
    Len(a) = Len(b) /\ \A k \in 1..Len(a) : SameLetter(a[k], b[k])
ContainsIgnoringCase(text, term) ==
    \E i \in 1..(Len(text) - Len(term) + 1) :
        EqualIgnoringCase(SubSeq(text, i, i + Len(term) - 1), term)
\* the texts of a record the search term is looked up in
SearchedTexts(log) ==
    ({log.message, log.source, log.stackTrace, log.level, eventTypeOf(log)} \ {Undefined})
    \cup {log.additionalInfo[k].v : k \in {x \in DOMAIN log.additionalInfo :
                                              log.additionalInfo[x].t = "string"}}
\* the records of a list that satisfy P, in the order of the list
RECURSIVE Keep(_, _)
Keep(P(_), logs) ==
    IF logs = <<>> THEN <<>>
    ELSE (IF P(logs[1]) THEN <<logs[1]>> ELSE <<>>) \o Keep(P, Tail(logs))

\* C8: for two predicates over disjoint fields (searchTerm included),
\* filtering by their union returns what filtering by the one and then by
\* the other returns, in either order.
C8_Conjunction ==
    fpc = "second" =>
        /\ fMerged = fSecond
        /\ fMerged = filterLogs(filterLogs(fRecords, fP2), fP1)

\* a search term and another constraint that keep one record each of two
\* and no record together
C8_Witness ==
    /\ fpc = "second" /\ Len(fRecords) = 2
    /\ fP1.searchTerm # Undefined /\ fP2 # EmptyFilter
    /\ Len(fFirst) = 1 /\ Len(filterLogs(fRecords, fP2)) = 1
    /\ fMerged = <<>>

\* the record has level L, ignoring case, and one of its texts contains T,
\* ignoring case
LevelAndText(log, L, T) ==
    /\ EqualIgnoringCase(log.level, L)
    /\ \E text \in SearchedTexts(log) : ContainsIgnoringCase(text, T)
\* the predicate constrains level and searchTerm and nothing else
LevelAndTermOnly == ActiveFields(Merged) = {"level", "searchTerm"}

\* C9: filtering by {level: L, searchTerm: T} returns exactly the records
\* whose level equals L ignoring case and one of whose message, source,
\* stack trace, level, event type or string values of additionalInfo
\* contains T ignoring case.
C9_LevelAndSearchTerm ==
    fpc # "start" /\ LevelAndTermOnly =>
        LET Wanted(log) == LevelAndText(log, Merged.level, Merged.searchTerm)
        IN  fMerged = Keep(Wanted, fRecords)

\* of two records whose texts contain the term, the one of the wanted level
\* is returned and the other is not
C9_Witness ==
    /\ fpc # "start" /\ LevelAndTermOnly /\ Len(fRecords) = 2 /\ Len(fMerged) = 1
    /\ \A k \in 1..2 : \E text \in SearchedTexts(fRecords[k]) :
          ContainsIgnoringCase(text, Merged.searchTerm)
    /\ \E k \in 1..2 : fRecords[k].level # Merged.level
                       /\ EqualIgnoringCase(fRecords[k].level, Merged.level)

\* C10: filtering with a source constraint S returns only records that have
\* a source and whose source contains S.
C10_SourceOnly ==
    fpc # "start" /\ Merged.source # Undefined =>
        \A k \in 1..Len(fMerged) :
            /\ fMerged[k].source # Undefined
            /\ includes(fMerged[k].source, Merged.source)

\* the domain keys of the filter that are matched in several places
BusinessKeys == {"accountNo", "uniqueId", "cardNo", "username", "status"}
\* the value equals the additionalInfo field of the key, occurs in the
\* message, or (for every key except username) equals the level
PassesKey(log, key, value) ==
    \/ InfoStr(log.additionalInfo, key) = value
    \/ includes(log.message, value)
    \/ (key # "username" /\ log.level = value)

\* C11: under a predicate with one business key constraint a record passes
\* iff the value equals the additionalInfo field of that key, occurs as a
\* substring of the message or, for every key except username, equals the
\* record's level.
C11_BusinessKeys ==
    fpc # "start" =>
        \A key \in BusinessKeys :
            ActiveFields(Merged) = {key} =>
                LET Wanted(log) == PassesKey(log, key, Merged[key])
                IN  fMerged = Keep(Wanted, fRecords)

\* the fields a predicate constrains: present and not empty
Constrained(filter) == {k \in DOMAIN filter : Truthy(filter[k])}
\* the predicate that holds constraint k of a predicate and nothing else
Only(filter, k) == [EmptyFilter EXCEPT ![k] = filter[k]]
\* the record satisfies every active constraint of the predicate, each
\* taken alone
SatisfiesAll(log, filter) ==
    \A k \in Constrained(filter) : filterLogs(<<log>>, Only(filter, k)) = <<log>>

LevelsSeen == IF spc = "threw" THEN sIndex + 1 ELSE sIndex
\* how many of them have one of the levels, ignoring case
SeenWithLevel(levels) ==
    Cardinality({i \in 1..LevelsSeen :
                    \E level \in levels : EqualIgnoringCase(sLogs[i].level, level)})

\* C13: errorCount + warningCount + infoCount <= totalEntries, where
\* totalEntries is the length of the sequence, errorCount counts the ERROR
\* records, warningCount the WARN and the WARNING records and infoCount the
\* INFO records (so a record adds to at most one of the three).
C13_StatsTotals ==
    spc # "idle" =>
        /\ stats.totalEntries = Len(sLogs)
        /\ stats.errorCount = SeenWithLevel({s_ERROR})
        /\ stats.warningCount = SeenWithLevel({<<"W","A","R","N">>, <<"W","A","R","N","I","N","G">>})
        /\ stats.infoCount = SeenWithLevel({<<"I","N","F","O">>})
        /\ stats.errorCount + stats.warningCount + stats.infoCount <= stats.totalEntries

\* the result for a WARN, a lower-case warning and a DEBUG record
C13_Witness ==
    /\ spc = "returned" /\ stats.totalEntries = 3
    /\ stats.warningCount = 2 /\ stats.errorCount = 0 /\ stats.infoCount = 0
    /\ \E i \in 1..3 : sLogs[i].level = <<"w","a","r","n","i","n","g">>
    /\ \E i \in 1..3 : sLogs[i].level = <<"W","A","R","N">>

\* the flat distributions of the result, each with the value a record
\* carries for it (Undefined or empty when it carries none)
Carried(name, log) ==
    CASE name = "sourcesDistribution" -> log.source
      [] name = "accountNoDistribution" -> InfoStr(log.additionalInfo, "accountNo")
      [] name = "uniqueIdDistribution" -> InfoStr(log.additionalInfo, "uniqueId")
      [] name = "eventTypeDistribution" -> eventTypeOf(log)
      [] name = "statusDistribution" -> InfoStr(log.additionalInfo, "status")
FlatDistributions == {"sourcesDistribution", "accountNoDistribution", "uniqueIdDistribution",
                      "eventTypeDistribution", "statusDistribution"}
\* the number of input records that carry the value for the distribution
Carrying(name, value) == Cardinality({i \in 1..Len(sLogs) : Carried(name, sLogs[i]) = value})
\* the keys of the distribution are the values that occur, each mapped to
\* the number of records that carry it
CountsRecords(name) ==
    /\ DOMAIN stats[name] = {Carried(name, sLogs[i]) : i \in 1..Len(sLogs)} \ {Undefined, <<>>}
    /\ \A key \in DOMAIN stats[name] :
          stats[name][key] = NumVal(Carrying(name, key)) /\ Carrying(name, key) > 0
\* the sum, over the dates of a date-bucketed mapping, of the count of a key
RECURSIVE SumOverDates(_, _, _)
SumOverDates(nested, dates, key) ==
    IF dates = {} THEN 0
    ELSE LET d == CHOOSE x \in dates : TRUE
         IN  (IF key \in DOMAIN nested[d] THEN nested[d][key].v ELSE 0)
             + SumOverDates(nested, dates \ {d}, key)
\* every count of the nested mapping is a number, no date is empty, and
\* the counts of a key add up to its count in the flat mapping
Mirrors(nested, flat) ==
    /\ \A d \in DOMAIN nested :
          DOMAIN nested[d] # {} /\ \A key \in DOMAIN nested[d] : nested[d][key].t = "number"
    /\ \A key \in DOMAIN flat :
          flat[key] = NumVal(SumOverDates(nested, DOMAIN nested, key))

\* C14: in the result of calculateStats every key of a distribution maps to
\* the number of input records that carry the value (so to no count of 0),
\* and for each accountNo and each uniqueId the counts in the date-bucketed
\* mapping add up, over the dates, to the count in the flat mapping.
C14_Distributions ==
    spc = "returned" =>
        /\ \A name \in FlatDistributions : CountsRecords(name)
        /\ stats.timeDistribution # EmptyInfo <=> sLogs # <<>>
        /\ Mirrors(stats.dateAccountNoDistribution, stats.accountNoDistribution)
        /\ Mirrors(stats.dateUniqueIdDistribution, stats.uniqueIdDistribution)

(***************************************************************************)
(* Vocabulary of the properties of normalizeTimestamp.                     *)
(***************************************************************************)
\* the text, with its first comma replaced by a period, is no valid time
Unparsable(text) == ~DateParse(ReplaceFirstComma(text)).valid
\* the text is the canonical form of a reading of the clock up to `last`
CurrentTimeUpTo(text, last) == \E k \in 0..last : text = NowISOString(k)

\* C15: normalizeTimestamp never raises to its caller: a call is at one of
\* its statements or has returned, and a call on a text that (after its
\* first comma is replaced by a period) is no valid time returned the
\* current time in canonical form; parseLogContent emits a record for every
\* record-starting line, with the current time when the line's timestamp is
\* such a text.
C15_NeverRaises ==
    /\ npc \in {"idle", "try", "isNaN", "catch", "returned"}
    /\ npc = "returned" => Len(nCalls) > 0 /\ nCalls[Len(nCalls)].timestamp = nTimestamp
    /\ \A c \in 1..Len(nCalls) :
          /\ IsCanonicalTimestamp(nCalls[c].returned)
          /\ Unparsable(nCalls[c].timestamp) => CurrentTimeUpTo(nCalls[c].returned, nClock)
    /\ pc = "done" =>
          /\ Len(entries) = Cardinality(RecordStarts)
          /\ \A i \in RecordStarts :
                Truthy(facts[i].start[0].timestamp) /\ Unparsable(facts[i].start[0].timestamp)
                    => CurrentTimeUpTo(EntryOf(i).timestamp, clock)

\* the record of a line whose timestamp names month 13, emitted with the
\* time of the clock after the line was read
C15_Witness ==
    /\ pc = "done" /\ lines = <<LineBadMonth>>
    /\ facts[1].start[0].timestamp = SubSeq(LineBadMonth, 1, 19)
    /\ Len(entries) = 1 /\ entries[1].message = LineBadMonth
    /\ clock = 1 /\ entries[1].timestamp = NowISOString(1)

\* C16: normalizeTimestamp is idempotent on the values it returns from a
\* successful parse: the call on such a value parses it as well and returns
\* the same text, not the current time.
C16_Idempotent ==
    \A c \in 2..Len(nCalls) :
        nCalls[c - 1].parsed =>
            /\ nCalls[c].timestamp = nCalls[c - 1].returned
            /\ nCalls[c].parsed
            /\ nCalls[c].returned = nCalls[c - 1].returned

\* a local time with a comma fraction and an offset, whose canonical form
\* is on the next day of the next year, normalized twice
C16_Witness ==
    /\ npc = "returned" /\ Len(nCalls) = 2
    /\ nCalls[1].parsed /\ nCalls[1].timestamp # nCalls[1].returned
    /\ SubSeq(nCalls[1].timestamp, 1, 10) = <<"2","0","2","4","-","1","2","-","3","1">>
    /\ SubSeq(nCalls[1].returned, 1, 10) = <<"2","0","2","5","-","0","1","-","0","1">>
    /\ "," \in {nCalls[1].timestamp[i] : i \in 1..Len(nCalls[1].timestamp)}
    /\ nCalls[2].returned = nCalls[1].returned

(***************************************************************************)
(* The output of parseLogContent is append-only.                           *)
(***************************************************************************)
\* the step leaves every record of the output as it is, with all its fields
PrefixKept == Len(entries') >= Len(entries) /\ SubSeq(entries', 1, Len(entries)) = entries
\* the step emits at most one record, made of the entry that was current
\* and of the stack-trace lines buffered for it
EmitsCurrent ==
    entries' # entries =>
        /\ Len(entries') = Len(entries) + 1
        /\ currentEntry # Null
        /\ entries'[Len(entries')].message = OrElse(currentEntry.message, <<>>)
        /\ currentStackTrace # <<>> =>
              entries'[Len(entries')].stackTrace = join(currentStackTrace, <<"\n">>)
        /\ currentStackTrace' = <<>>
\* the step buffers a stack-trace line only for an entry that is current
\* before and after it, and emits nothing
BuffersForCurrent ==
    currentStackTrace' # currentStackTrace /\ currentStackTrace' # <<>> =>
        /\ currentEntry # Null /\ currentEntry' = currentEntry
        /\ currentStackTrace' = Append(currentStackTrace, line)
        /\ entries' = entries

\* C17: no step of parseLogContent changes a record that is in the output:
\* the output only grows at its end, every emitted prefix stays as it is
\* (additionalInfo and stackTrace included), and stack-trace lines are only
\* added to the current entry, which is not in the output yet.
C17_AppendOnly == [][PrefixKept /\ EmitsCurrent /\ BuffersForCurrent]_vars

\* two records with additional fields and a stack trace in the output, the
\* first of them emitted two lines before the end of the input
C17_Witness ==
    /\ pc = "done" /\ Len(entries) = 2
    /\ lines = <<LineSpringTransaction, LinePipeAuthEvent, LineCausedBy>>
    /\ entries[1].additionalInfo # EmptyInfo
    /\ entries[2].stackTrace = LineCausedBy

(***************************************************************************)
(* Vocabulary of the properties of the remote fetch.                       *)
(***************************************************************************)
\* the submission has done nothing to the logs of App: nothing was parsed,
\* the callback was not invoked, logs and filteredLogs are those it found
LogsUntouched ==
    /\ rCall.parsed = 0 /\ rCall.called = 0
    /\ aLogs = rCall.logs /\ aFilteredLogs = rCall.filteredLogs
\* the submission is over, with the message as the error of the form and
\* the loading flag down
EndedWith(message) == rpc = "form" => rError = message /\ rError # Null /\ rLoading = FALSE

\* C18: when the fetch ends with a status outside 200..299 or with a network
\* failure, fetchLogs throws without having parsed anything, the callback is
\* not invoked and the logs of App stay as they were, and when handleSubmit
\* ends the error is recorded and the loading flag is false again.
C18_FetchFailure ==
    /\ rResponse # Null /\ rResponse.status \notin 200..299 /\ rpc # "response" =>
          rThrown = HttpError(rResponse.status)
    /\ rThrown # Null => LogsUntouched /\ EndedWith(rThrown)
    /\ rLoading <=> rpc \in {"fetch", "response", "catch", "finally"}

\* a submission that loaded a record, then one that ended with status 404
C18_Witness ==
    /\ rpc = "form" /\ rSubmits = 2
    /\ Len(aLogs) = 1 /\ aLogs[1].message = LineUnknown
    /\ rResponse # Null /\ rResponse.status = 404
    /\ rError = HttpError(404)

(***************************************************************************)
(* Vocabulary of the properties of the format registry.                    *)
(***************************************************************************)
\* the matches of the patterns of the registry against the line, in the
\* order of the registry
RegistryMatches(l) ==
    <<SpringBootMatch(l), TomcatMatch(l), IsoMatch(l), SimpleMatch(l),
      DynamicPipeMatch(l), CommonMatch(l), SyslogMatch(l)>>
\* what the extractor of the k-th entry of the registry makes of its match
ExtractedBy(k, m) ==
    CASE k = 1 -> SpringBootExtract(m)
      [] k = 2 -> TomcatExtract(m)
      [] k = 3 -> IsoExtract(m)
      [] k = 4 -> SimpleExtract(m)
      [] k = 5 -> DynamicPipeExtract(m)
      [] k = 6 -> CommonExtract(m)
      [] k = 7 -> SyslogExtract(m)
\* the entry was built from the first of the matches that succeeded, and
\* by a fallback only when none did
BuiltByFirst(fs, matches, hits) ==
    IF hits = {} THEN fs.notParsed
    ELSE ~fs.notParsed /\ fs.start[0] = ExtractedBy(MinOf(hits), matches[MinOf(hits)])
FirstMatchWins(fs, matches) ==
    BuiltByFirst(fs, matches, {k \in 1..Len(matches) : matches[k].matched})
\* the line has the structured prefix and a pipe payload after it
StructuredWithPayload(l) == SpringBootMatch(l).matched

\* C19: the record of every record-starting line is built by the extractor
\* of the first entry of the registry whose pattern matches the line, and
\* by no later one; a line with the structured prefix and a pipe payload is
\* handled by the first entry, the business pipe-delimited dialect.
C19_FirstMatchWins ==
    /\ \A i \in 1..index :
          i \in RecordStarts =>
              /\ FirstMatchWins(facts[i], RegistryMatches(lines[i]))
              /\ StructuredWithPayload(lines[i]) =>
                    facts[i].start[0] = SpringBootExtract(SpringBootMatch(lines[i]))
    /\ pc = "done" =>
          \A i \in RecordStarts : Content(EntryOf(i)) = ContentOfLine(i)

\* a record of a line that the first and the fifth pattern of the registry
\* both match, on which their extractors differ
C19_Witness ==
    /\ pc = "done" /\ lines = <<LineSpringAuthEvent>>
    /\ SpringBootMatch(lines[1]).matched /\ DynamicPipeMatch(lines[1]).matched
    /\ SpringBootExtract(SpringBootMatch(lines[1])) # DynamicPipeExtract(DynamicPipeMatch(lines[1]))
    /\ Len(entries) = 1 /\ entries[1].source = <<"a",".","B">>

\* the keys of additionalInfo that the layout of a discriminator puts on the
\* fields 1, 2, ... of the payload; no key ("") on a field that is the
\* timestamp or the message
Layout(discriminator) ==
    CASE discriminator = s_AUTH_EVENT ->
             <<"", "username", "remoteAddr", "action", "response", "ofsResponse">>
      [] discriminator = s_ACCOUNT_QUERY ->
             <<"accountNo", "", "remoteAddr", "status", "response", "ofsResponse">>
      [] discriminator = s_CARD_STATUS ->
             <<"cardNo", "", "remoteAddr", "action", "status", "response", "ofsResponse">>
      [] discriminator = s_ERROR ->
             <<"uniqueId", "", "eventType", "status", "", "response", "ofsResponse">>
      [] OTHER -> <<>>
\* the payload after the structured prefix of the line
StructuredPayload(l) == trim(Group(SpringBootMatch(l), 4))
\* additionalInfo holds the fields of the payload under the keys of the
\* layout, and the message is not the raw payload
Populated(entry, payload, fields, layout) ==
    layout # <<>> =>
        /\ \A p \in 1..Len(layout) :
              layout[p] # "" /\ p + 1 <= Len(fields) =>
                  InfoStr(entry.additionalInfo, layout[p]) = fields[p + 1]
        /\ entry.message # payload
PopulatedBy(entry, payload, fields) == Populated(entry, payload, fields, Layout(fields[1]))

\* C20: the record of a line with the structured prefix whose payload begins
\* with AUTH_EVENT, ACCOUNT_QUERY, CARD_STATUS or ERROR holds the fields of
\* the payload in additionalInfo under the keys of the discriminator's
\* layout (username, remoteAddr, action, response, ofsResponse from fields
\* 2..6 of an AUTH_EVENT payload, accountNo from field 1 of an ACCOUNT_QUERY
\* payload), and its message is synthesized, not the raw payload.
C20_StructuredLayouts ==
    pc = "done" =>
        \A i \in RecordStarts :
            StructuredWithPayload(lines[i]) =>
                PopulatedBy(EntryOf(i), StructuredPayload(lines[i]),
                            split(StructuredPayload(lines[i]), "|"))

(***************************************************************************)
(* Vocabulary of the properties of the dialects.                           *)
(***************************************************************************)
\* the fields of a TRANSACTION payload from index 5 on
TrailingOf(payload) ==
    LET fields == split(payload, "|")
    IN  SubSeq(fields, 6, Len(fields))
\* the first IP-shaped field, or Undefined
FirstIpShaped(fields) ==
    LET ks == {k \in 1..Len(fields) : IsIpShaped(fields[k])}
    IN  IF ks = {} THEN Undefined ELSE fields[MinOf(ks)]
\* what `first` found is what the record holds under `key`
KeepsFound(info, key, first) == first # Undefined => InfoStr(info, key) = first
\* the record holds the first `response=`, the first `ofsResponse=` and the
\* first IP-shaped field of the trailing fields
KeepsFirst(info, trailing) ==
    /\ KeepsFound(info, "response", FieldAfter(trailing, s_responseEq))
    /\ KeepsFound(info, "ofsResponse", FieldAfter(trailing, s_ofsResponseEq))
    /\ KeepsFound(info, "remoteAddr", FirstIpShaped(trailing))

\* C21: the record of a TRANSACTION payload, in the structured-prefix dialect
\* and in the generic pipe dialect, holds as response, ofsResponse and
\* remoteAddr the first trailing field that matches each; a later matching
\* field does not replace it.
C21_FirstMatchKept ==
    gpc = "current" /\ gEntry.eventType = s_TRANSACTION =>
        KeepsFirst(gEntry.additionalInfo, TrailingOf(TransactionPayload(gLine)))

\* the payload of a line: what follows its prefix
PayloadOf(l) ==
    CHOOSE payload \in Payloads : \E prefix \in LinePrefixes : l = prefix \o payload
\* one of the four dialects before the generic pipe dialect claims the line
ClaimedEarlier(l) ==
    \/ SpringBootMatch(l) # NoMatch \/ TomcatMatch(l) # NoMatch
    \/ IsoMatch(l) # NoMatch \/ SimpleMatch(l) # NoMatch
\* a dialect built the record, dispatching on the payload's first field
DispatchedOn(parsed, fields) == parsed # Null /\ parsed.eventType = fields[1]

\* C22: a line that holds two pipe characters or more and that no earlier
\* dialect claims is recognized by the generic pipe dialect, which dispatches
\* on the first field of the payload, whatever precedes the payload; the
\* basic extractor and the unknown-format record are not reached.
C22_TwoPipesRecognized ==
    gpc = "current" /\ TwoPipesFrom(gLine, 1) /\ ~ClaimedEarlier(gLine) =>
        /\ DispatchedOn(gParsed, split(PayloadOf(gLine), "|"))
        /\ gEntry = gParsed

\* the timestamp and the level the layout of the payload's type takes from the
\* payload, Undefined where the layout has none
PayloadTimestamp(fields) ==
    IF fields[1] \in {s_AUTH_EVENT, s_OTHER_EVENT} THEN Part(fields, 1)
    ELSE IF fields[1] \in {s_ACCOUNT_QUERY, s_CARD_STATUS, s_ERROR} THEN Part(fields, 2)
    ELSE IF fields[1] = s_TRANSACTION THEN Part(fields, 3)
    ELSE Undefined
PayloadLevel(fields) == IF fields[1] = s_ERROR THEN s_ERROR ELSE Undefined
\* the record keeps what the payload gave
KeepsPayload(entry, timestamp, level) ==
    /\ timestamp # Undefined => entry.timestamp = timestamp
    /\ level # Undefined => entry.level = level
\* the generic pipe dialect is the first whose pattern matches the line
GenericPipeLine(l) == ~ClaimedEarlier(l) /\ DynamicPipeMatch(l) # NoMatch

Handling == pc = "lines" /\ index < Len(lines)
\* the step handles a blank line: nothing but the position changes
BlankKeepsState ==
    Handling /\ BlankAt(index + 1) =>
        /\ index' = index + 1
        /\ UNCHANGED <<currentEntry, currentStackTrace, entries, errors, clock, pc, appVars, viewVars>>
\* the step handles a continuation line that follows a blank line while an
\* entry is current: the line is buffered for that entry
AttachesAfterBlank ==
    /\ Handling /\ index >= 1 /\ BlankAt(index) /\ ~BlankAt(index + 1)
    /\ StackShapedAt(index + 1) /\ currentEntry # Null
    => /\ currentEntry' = currentEntry
       /\ currentStackTrace' = Append(currentStackTrace, lines[index + 1])
       /\ entries' = entries

\* C24: a blank line changes no parser state (no record is created, the
\* current entry is not finalized, the stack-trace buffer is kept), and a
\* continuation line after a blank line is buffered for the entry that was
\* current before the blank line.
C24_BlankLineIgnored == [][BlankKeepsState /\ AttachesAfterBlank]_vars
\* a record line, a blank line, then a continuation line that ends in the
\* stack trace of the one record
C24_Witness ==
    /\ pc = "done" /\ Len(lines) = 3 /\ Len(entries) = 1
    /\ ~BlankAt(1) /\ BlankAt(2) /\ StackShapedAt(3) /\ ~BlankAt(3)
    /\ entries[1].stackTrace = lines[3]

\* the step handles a line that is not blank and has the shape of a
\* continuation
HandlingContinuation == Handling /\ ~BlankAt(index + 1) /\ StackShapedAt(index + 1)
\* no entry is current exactly at the first non-blank line of the input
NoCurrentAtFirst ==
    Handling /\ ~BlankAt(index + 1) => (currentEntry = Null <=> FirstNonBlankAt(index + 1))
\* the buffer of stack-trace lines grows only while an entry is current
BuffersOnlyForCurrent ==
    Len(currentStackTrace') > Len(currentStackTrace) =>
        HandlingContinuation /\ currentEntry # Null
\* without a current entry the continuation-shaped line starts an entry of its
\* own, which is current after the step
StartsOwnRecord ==
    HandlingContinuation /\ currentEntry = Null =>
        /\ currentEntry' # Null
        /\ \E t \in 0..MaxClock : currentEntry' = facts[index + 1].start[t]
        /\ currentStackTrace' = <<>>
        /\ entries' = entries

\* C25: a continuation-shaped line is buffered as a stack-trace line only
\* while an entry is current; when none is (the line is the first non-blank
\* line of the input) the line starts a record of its own, and an entry is
\* current after it.
C25_ContinuationNeedsCurrent ==
    [][NoCurrentAtFirst /\ BuffersOnlyForCurrent /\ StartsOwnRecord]_vars
\* "Caused by: x" as the first line has a record of its own, and the
\* continuation line after it is in that record's stack trace
C25_Witness ==
    /\ pc = "done" /\ lines = <<LineCausedBy, LineIndentedAt>>
    /\ Len(entries) = 1
    /\ entries[1].message = LineCausedBy
    /\ entries[1].stackTrace = LineIndentedAt

\* the call has returned, with every line handled and a record for every
\* record-starting line, the last of them included
ReturnedWithAll ==
    /\ pc = "done" /\ index = Len(lines)
    /\ currentEntry = Null
    /\ Len(entries) = Cardinality(RecordStarts)

\* C26: parseLogContent returns for every input, after it has handled every
\* line once and emitted the entry that was current at the end of the input:
\* the output then holds one record per record-starting line, whatever the
\* content of the lines.
C26_Terminates == <>ReturnedWithAll
\* a line with an impossible date and a line of no known format: both have
\* their record on return
C26_Witness ==
    /\ pc = "done" /\ lines = <<LineBadMonth, LineUnknown>>
    /\ index = 2 /\ Len(entries) = 2
    /\ entries[2].level = s_UNKNOWN

\* the lines of a record's stack trace, in order
StackSeqOf(entry) ==
    IF entry.stackTrace = Undefined THEN <<>> ELSE split(entry.stackTrace, "\n")
\* the lines at the positions of S, in the order of the input
RECURSIVE LinesAt(_)
LinesAt(S) == IF S = {} THEN <<>> ELSE <<lines[MinOf(S)]>> \o LinesAt(S \ {MinOf(S)})
\* the stack-trace lines of the records ents, record after record
RECURSIVE AllStackLines(_)
AllStackLines(ents) ==
    IF ents = <<>> THEN <<>> ELSE StackSeqOf(ents[1]) \o AllStackLines(Tail(ents))
\* the non-blank lines of the input
NonBlank == {i \in 1..Len(lines) : ~BlankAt(i)}
\* one record per record-starting line, every other non-blank line once in
\* the stack traces, and nothing else in them
AccountedOnce(starts, stackLines) ==
    /\ Len(entries) = Cardinality(starts)
    /\ stackLines = LinesAt(NonBlank \ starts)
    /\ Len(entries) + Len(stackLines) = Cardinality(NonBlank)

\* C27: on return every non-blank line of the input is the origin of one
\* record or one line of one record's stack trace, and of nothing else: the
\* number of records plus the number of stack-trace lines is the number of
\* non-blank lines.
C27_LineAccounting ==
    pc = "done" => AccountedOnce(RecordStarts, AllStackLines(entries))
\* three non-blank lines gave two records, the first with one stack-trace line
C27_Witness ==
    /\ pc = "done" /\ Cardinality(NonBlank) = 3
    /\ Len(entries) = 2
    /\ entries[1].stackTrace = lines[2]
    /\ entries[2].stackTrace = Undefined

(***************************************************************************)
(* Vocabulary of the properties of App.                                    *)
(***************************************************************************)
\* C28: whatever loads and filter changes came before, the records App
\* displays are those filterLogs selects from the current logs under the
\* current filter; logs loaded while a filter is active are shown filtered.
C28_DisplayedIsFiltered == aFilteredLogs = filterLogs(aLogs, aFilter)

\* both ingestions were started and both called onLogsLoaded
BothLoaded == Len(uParses) = 2 /\ Len(uFinished) = 2
\* C29: when two ingestions were started one after the other and both have
\* delivered their records, App holds the records of the one started last,
\* also when that one delivered first.
C29_LastStartedWins == BothLoaded => aLogs = uParses[2].entries

\* C30: whatever page changes, rows-per-page changes and replacements of the
\* list came before, the current page of the LogViewer exists: while the
\* list is not empty, page * rowsPerPage < logs.length, so at least one row
\* is shown.
C30_PageExists ==
    LET \* paginatedLogs.length, of logs.slice(page * rowsPerPage, page * rowsPerPage + rowsPerPage)
        PaginatedCount(count, page, rowsPerPage) ==
            IF page * rowsPerPage >= count THEN 0
            ELSE IF page * rowsPerPage + rowsPerPage > count THEN count - page * rowsPerPage
            ELSE rowsPerPage
    IN  vCount > 0 =>
            /\ vPage * vRowsPerPage < vCount
            /\ PaginatedCount(vCount, vPage, vRowsPerPage) > 0
====
